---- MODULE Spec2Model ----
(***************************************************************************)
(* Authentication core of lc-opd-daily (python-api): login, refresh and    *)
(* logout of app/api/endpoints/auth.py, the token functions of             *)
(* app/core/security.py, the access-token dependency of app/api/deps.py    *)
(* and the login rate limiter of app/utils/rate_limit.py.                  *)
(*                                                                         *)
(* Time is an integer number of seconds (the resolution of the exp and iat *)
(* claims of a JWT).  Every handler is split at its awaits on the data     *)
(* store: the code between two awaits runs without interruption on the     *)
(* event loop, the store calls of different requests interleave.           *)
(* app/services/user_service.py is not part of the sources at hand; its    *)
(* functions are modelled from their contract (sections 4.2 and 4.4 of the *)
(* specification) and from the table definitions under app/db/models.      *)
(***************************************************************************)
EXTENDS Integers, Sequences, FiniteSets, TLC

\* ------------------------------------------------------------------ bounds
MaxEvents == 4
\* login attempts and clock steps of the limiter's specification
MaxAttempts == 13
\* attempts per window of the second client of the limiter's specification
MaxOther == 1

\* ------------------------------------------------------- program constants
ACCESS_TOKEN_EXPIRE_MINUTES == 1440
REFRESH_TOKEN_EXPIRE_DAYS == 7
max_calls == 10
time_frame == 60
cleanup_interval == 600

SECRET_KEY == "SECRET_KEY"

\* timedelta(minutes=...) and timedelta(days=...) in seconds
access_token_expires == ACCESS_TOKEN_EXPIRE_MINUTES * 60
refresh_token_expires == REFRESH_TOKEN_EXPIRE_DAYS * 24 * 60 * 60

\* ------------------------------------------------------------- input sets
Procs == {"p1", "p2"}
ProcLess(p, q) == p = "p1" /\ q = "p2"
UserIds == {"u1", "u2"}
Clients == {"ip1"}
Roles == {"user", "admin"}
Names == {"n1", "n2"}
Branches == {"B1", "B2"}
Passwords == {"secret", "wrong"}
TickSteps == {access_token_expires, refresh_token_expires}
\* clock steps at the scale of the limiter: a second, the window, the sweep interval
LimiterSteps == {1, time_frame, cleanup_interval}
\* the clock readings at which the limiter is called
LimiterTimes == {0, 1, time_frame, time_frame + 1, time_frame + 1 + cleanup_interval,
                 time_frame + 2 + cleanup_interval}
LimiterClients == {"ip1", "ip2"}

None == "None"

\* the username and the email of each identity; every other identifier is unknown
username(u) == u
email(u) == IF u = "u1" THEN "u1@mail" ELSE "u2@mail"
Identifiers == {username(u) : u \in UserIds} \cup {email(u) : u \in UserIds} \cup {"nobody"}

VARIABLES
    now,           \* the clock, in seconds
    users,         \* table User: id -> row
    store,         \* table RefreshToken: set of rows
    cache,         \* login_limiter._cache
    last_cleanup,  \* login_limiter._last_cleanup
    issued,        \* token strings returned to clients so far
    pc,            \* position of each request context
    loc,           \* local variables of each request in flight
    out,           \* the response sent by the last step, if it sent one
    nev,           \* number of requests, clock steps and user changes so far
    loggedOut,    \* history: the refresh tokens issued before a completed logout of
                  \* their identity and not issued again with a new record since
    call,         \* the last call of a function made outside a request: its
                  \* arguments and what it returned (for a token, what
                  \* verifying it gave)
    assignments,  \* table UserBranchAssignment: set of rows
    reports       \* table Report: id -> row

vars == <<now, users, store, cache, last_cleanup, issued, pc, loc, out, nev,
          loggedOut, call, assignments, reports>>

\* ------------------------------------------------------------------ tokens
\* A token string is determined by its payload and the key that signed it
\* (HS256 is deterministic): two tokens are the same string iff both agree.
NoToken == [key |-> "none", payload |-> [type |-> "none"]]
EmptyToken == [key |-> "", payload |-> [type |-> ""]]

\* dict.update
DictUpdate(d, e) ==
    [k \in (DOMAIN d) \cup (DOMAIN e) |-> IF k \in DOMAIN e THEN e[k] ELSE d[k]]

jwt_encode(to_encode, key) == [key |-> key, payload |-> to_encode]

\* jose.jwt.decode: signature first, then the exp claim (expired iff exp < now)
jwt_decode(token, key, t) ==
    IF token.key # key THEN [ok |-> FALSE, error |-> "JWTError", payload |-> NoToken.payload]
    ELSE IF "exp" \in DOMAIN token.payload /\ token.payload.exp < t
         THEN [ok |-> FALSE, error |-> "ExpiredSignatureError", payload |-> NoToken.payload]
         ELSE [ok |-> TRUE, error |-> "", payload |-> token.payload]

\* create_access_token forgetting to add expires_delta
create_access_token_nodelta(subject, expires_delta, extra_data, t) ==
    LET to_encode == [exp |-> t, sub |-> subject, type |-> "access", iat |-> t]
    IN  jwt_encode(DictUpdate(to_encode, extra_data), SECRET_KEY)

create_access_token(subject, expires_delta, extra_data, t) ==
    LET expire == t + expires_delta
        to_encode == [exp |-> expire, sub |-> subject, type |-> "access", iat |-> t]
    IN  jwt_encode(DictUpdate(to_encode, extra_data), SECRET_KEY)

create_refresh_token(subject, expires_delta, extra_data, t) ==
    LET expire == t + expires_delta
        to_encode == [exp |-> expire, sub |-> subject, type |-> "refresh", iat |-> t]
    IN  jwt_encode(DictUpdate(to_encode, extra_data), SECRET_KEY)

\* payload.get(k)
PayloadGet(payload, k) == IF k \in DOMAIN payload THEN payload[k] ELSE None

verify_refresh_token(token, t) ==
    LET d == jwt_decode(token, SECRET_KEY, t)
    IN  IF ~d.ok THEN None
        ELSE IF PayloadGet(d.payload, "type") # "refresh" THEN None
        ELSE PayloadGet(d.payload, "sub")

\* the payload, or NoToken.payload for None
decode_access_token(token, t) ==
    LET d == jwt_decode(token, SECRET_KEY, t)
    IN  IF ~d.ok THEN NoToken.payload
        ELSE IF "type" \in DOMAIN d.payload /\ d.payload.type # "access" THEN NoToken.payload
        ELSE d.payload

\* what a verification hands back to its caller: verify_refresh_token the
\* subject or None, decode_access_token the payload or None
VerifyOutcome(token, expect, t) ==
    IF expect = "refresh"
    THEN LET user_id == verify_refresh_token(token, t)
         IN  [ok |-> user_id # None, sub |-> user_id, payload |-> NoToken.payload]
    ELSE LET payload == decode_access_token(token, t)
         IN  [ok |-> payload # NoToken.payload, sub |-> PayloadGet(payload, "sub"),
              payload |-> payload]

NoOutcome == [ok |-> FALSE, sub |-> None, payload |-> NoToken.payload]

NoCall == [fn |-> "none", subject |-> None, extra_data |-> NoToken.payload,
           token |-> NoToken, at |-> 0, expect |-> "none", verified_at |-> 0,
           outcome |-> NoOutcome]

\* ------------------------------------------------------------ rate limiter
\* self._cache[key] of a defaultdict(list)
CacheGet(c, key) == IF key \in DOMAIN c THEN c[key] ELSE <<>>

\* a window that leaves out the timestamp exactly time_frame seconds old
InWindow_strict(list, t) == SelectSeq(list, LAMBDA ts : t - ts < time_frame)

\* the timestamps of a list that check keeps at time t
InWindow(list, t) == SelectSeq(list, LAMBDA ts : t - ts <= time_frame)

\* a sweep that empties the cache
_cleanup_clear(c, t) == [k \in {} |-> <<>>]

_cleanup(c, t) ==
    LET keep == {k \in DOMAIN c : InWindow(c[k], t) # <<>>}
    IN  [k \in keep |-> InWindow(c[k], t)]

\* check admitting one call more than max_calls
check_one_more(c, lc, key, t) ==
    LET sweep == t - lc > cleanup_interval
        c1 == IF sweep THEN _cleanup(c, t) ELSE c
        recent == InWindow(CacheGet(c1, key), t)
        allowed == ~(Len(recent) > max_calls)
        list == IF allowed THEN Append(recent, t) ELSE recent
    IN  [allowed |-> allowed,
         cache |-> [k \in (DOMAIN c1) \cup {key} |-> IF k = key THEN list ELSE c1[k]],
         last_cleanup |-> IF sweep THEN t ELSE lc]

\* check recording the rejected attempts too
check_records_rejected(c, lc, key, t) ==
    LET sweep == t - lc > cleanup_interval
        c1 == IF sweep THEN _cleanup(c, t) ELSE c
        recent == InWindow(CacheGet(c1, key), t)
        allowed == ~(Len(recent) >= max_calls)
        list == Append(recent, t)
    IN  [allowed |-> allowed,
         cache |-> [k \in (DOMAIN c1) \cup {key} |-> IF k = key THEN list ELSE c1[k]],
         last_cleanup |-> IF sweep THEN t ELSE lc]

\* check replacing the cache by the list of the key it was called with
check_forgets_others(c, lc, key, t) ==
    LET sweep == t - lc > cleanup_interval
        c1 == IF sweep THEN _cleanup(c, t) ELSE c
        recent == InWindow(CacheGet(c1, key), t)
        allowed == ~(Len(recent) >= max_calls)
        list == IF allowed THEN Append(recent, t) ELSE recent
    IN  [allowed |-> allowed,
         cache |-> [k \in {key} |-> list],
         last_cleanup |-> IF sweep THEN t ELSE lc]

\* check of a limiter whose sweep is disabled: every key is pruned only by
\* the checks of the key itself
check_no_sweep(c, lc, key, t) ==
    LET recent == InWindow(CacheGet(c, key), t)
        allowed == ~(Len(recent) >= max_calls)
        list == IF allowed THEN Append(recent, t) ELSE recent
    IN  [allowed |-> allowed,
         cache |-> [k \in (DOMAIN c) \cup {key} |-> IF k = key THEN list ELSE c[k]],
         last_cleanup |-> lc]

\* RateLimiter.check: the decision, and the limiter's state after the call
check(c, lc, key, t) ==
    LET sweep == t - lc > cleanup_interval
        c1 == IF sweep THEN _cleanup(c, t) ELSE c
        recent == InWindow(CacheGet(c1, key), t)
        allowed == ~(Len(recent) >= max_calls)
        list == IF allowed THEN Append(recent, t) ELSE recent
    IN  [allowed |-> allowed,
         cache |-> [k \in (DOMAIN c1) \cup {key} |-> IF k = key THEN list ELSE c1[k]],
         last_cleanup |-> IF sweep THEN t ELSE lc]

\* ------------------------------------------------------- passwords, users
get_password_hash(password) == [bcrypt |-> password]
verify_password(plain_password, hashed_password) ==
    hashed_password = get_password_hash(plain_password)

\* a nullable DateTime column holding NULL
NoTime == -1

NoUser == [exists |-> FALSE, isActive |-> FALSE, role |-> "user", name |-> "n1",
           branchId |-> "B1", password |-> get_password_hash("secret"),
           lastLogin |-> NoTime, failedLoginAttempts |-> 0, lockedUntil |-> NoTime]

get_user_by_id(us, user_id) ==
    IF user_id \in DOMAIN us /\ us[user_id].exists THEN user_id ELSE None

\* the lock-until timestamp of the row lies in the future
Locked(row, t) == row.lockedUntil # NoTime /\ row.lockedUntil > t

\* lookup by username, then by email; a locked identity fails before the
\* secret is looked at; the secret is verified against the hash. The caller
\* gets the identity or, for every kind of failure, nothing.
authenticate_user(us, username_or_email, password, t) ==
    LET found == {u \in DOMAIN us : us[u].exists /\
                    (username(u) = username_or_email \/ email(u) = username_or_email)}
    IN  IF found = {} THEN None
        ELSE LET u == CHOOSE x \in found : TRUE
             IN  IF Locked(us[u], t) THEN None
                 ELSE IF verify_password(password, us[u].password) THEN u ELSE None

is_active(us, u) == us[u].isActive

\* --------------------------------------------------- refresh-token records
\* INSERT of a row: userId is a foreign key into User and the token column is
\* unique, so the table refuses a row of a user that is gone and a second row
\* with the same token string
CanInsert_fk_only(st, us, user_id, token) == us[user_id].exists

CanInsert(st, us, user_id, token) ==
    /\ us[user_id].exists
    /\ \A r \in st : r.token # token

store_refresh_token(st, user_id, token, t) ==
    st \cup {[token |-> token, userId |-> user_id,
              expiresAt |-> t + refresh_token_expires, createdAt |-> t,
              isRevoked |-> FALSE]}

validate_refresh_token(st, user_id, token, t) ==
    \E r \in st : r.userId = user_id /\ r.token = token /\ ~r.isRevoked /\ r.expiresAt > t

invalidate_all_refresh_tokens(st, user_id) ==
    {IF r.userId = user_id THEN [r EXCEPT !.isRevoked = TRUE] ELSE r : r \in st}

\* ------------------------------------------------------------ table Report
ReportIds == {"r1", "r2"}

\* no row with that id
NoReport == [exists |-> FALSE, status |-> "none", submittedBy |-> None]

\* the empty table
NoReports == [r \in ReportIds |-> NoReport]

\* ------------------------------------------------------------- the state
NoLoc == [token |-> NoToken, user_id |-> None, access_token |-> NoToken,
          refresh_token |-> NoToken]

\* a response: the status and detail of the HTTP answer and the tokens of its
\* body, and with them the operation it answers and the events the handler logged
NoResp == [op |-> "none", status |-> 0, detail |-> "", event |-> "", warning |-> "",
           access_token |-> NoToken, refresh_token |-> NoToken, expires_at |-> 0,
           user_id |-> None, username |-> None]

Failure(op, status, detail, event) ==
    [NoResp EXCEPT !.op = op, !.status = status, !.detail = detail, !.event = event]

InitUser(u) ==
    [exists |-> TRUE, isActive |-> TRUE, role |-> IF u = "u1" THEN "user" ELSE "admin",
     name |-> "n1", branchId |-> "B1", password |-> get_password_hash("secret"),
     lastLogin |-> NoTime, failedLoginAttempts |-> 0, lockedUntil |-> NoTime]

Init ==
    /\ now = 0
    /\ users = [u \in UserIds |-> InitUser(u)]
    /\ store = {}
    /\ cache = <<>>
    /\ last_cleanup = 0
    /\ issued = {}
    /\ pc = [p \in Procs |-> "idle"]
    /\ loc = [p \in Procs |-> NoLoc]
    /\ out = NoResp
    /\ nev = 0
    /\ loggedOut = {}
    /\ call = NoCall
    /\ assignments = {}
    /\ reports = NoReports

\* the request of context p ends with response r
Respond(p, r) ==
    /\ pc' = [pc EXCEPT ![p] = "idle"]
    /\ loc' = [loc EXCEPT ![p] = NoLoc]
    /\ out' = r

\* the request of context p goes on at position at with the locals l
Continue(p, at, l) ==
    /\ pc' = [pc EXCEPT ![p] = at]
    /\ loc' = [loc EXCEPT ![p] = l]
    /\ out' = NoResp

\* no response is waiting to be taken off: nothing reads a response, so the
\* steps of the other requests need not be interleaved with its delivery
Quiet == out = NoResp

\* every step that changes more than the response counts against the bound
Event ==
    /\ Quiet
    /\ nev < MaxEvents
    /\ nev' = nev + 1

\* a request ends in its first step, having changed nothing but the response
Reject(p, r) ==
    /\ Respond(p, r)
    /\ nev' = nev

\* request contexts are interchangeable: a new request takes the first idle one
StartRequest(p) ==
    /\ Quiet
    /\ pc[p] = "idle"
    /\ \A q \in Procs : pc[q] = "idle" => ~ProcLess(q, p)

\* token_data of login and refresh
token_data(us, u) == [role |-> us[u].role, name |-> us[u].name, branchId |-> us[u].branchId]

\* ------------------------------------------------------------------ login
\* login looking at the active flag of the named identity before the secret
login_checks_inactive_first(us, allowed, ident, password, t, db_ok) ==
    LET user == authenticate_user(us, ident, password, t)
        named == {u \in DOMAIN us : us[u].exists /\ ident \in {username(u), email(u)}}
    IN  IF ~allowed
          THEN Failure("login", 429, "Too many login attempts. Please try again later.",
                       "rate_limit_exceeded")
        ELSE IF ~db_ok
          THEN Failure("login", 500, "An unexpected error occurred during login",
                       "login_error")
        ELSE IF \E u \in named : ~is_active(us, u)
          THEN [Failure("login", 400, "Inactive user", "inactive_user_login")
                  EXCEPT !.username = ident]
        ELSE IF user = None
          THEN [Failure("login", 401, "Incorrect username or password", "failed_login")
                  EXCEPT !.username = ident]
        ELSE NoResp

\* login verifying the credentials before it asks the limiter
login_checks_verify_first(us, allowed, ident, password, t, db_ok) ==
    LET user == authenticate_user(us, ident, password, t)
    IN  IF ~db_ok
          THEN Failure("login", 500, "An unexpected error occurred during login",
                       "login_error")
        ELSE IF user = None
          THEN [Failure("login", 401, "Incorrect username or password", "failed_login")
                  EXCEPT !.username = ident]
        ELSE IF ~is_active(us, user)
          THEN [Failure("login", 400, "Inactive user", "inactive_user_login")
                  EXCEPT !.username = ident]
        ELSE IF ~allowed
          THEN Failure("login", 429, "Too many login attempts. Please try again later.",
                       "rate_limit_exceeded")
        ELSE NoResp

\* the checks of _authenticate_and_create_tokens up to the creation of the
\* tokens: the failure it answers with, or NoResp when the attempt passes them;
\* allowed: what login_limiter.check returned; db_ok: the data store answers
\* the call (it raises otherwise)
login_checks(us, allowed, ident, password, t, db_ok) ==
    LET user == authenticate_user(us, ident, password, t)
    IN  IF ~allowed
          THEN Failure("login", 429, "Too many login attempts. Please try again later.",
                       "rate_limit_exceeded")
        ELSE IF ~db_ok
          THEN Failure("login", 500, "An unexpected error occurred during login",
                       "login_error")
        ELSE IF user = None
          THEN [Failure("login", 401, "Incorrect username or password", "failed_login")
                  EXCEPT !.username = ident]
        ELSE IF ~is_active(us, user)
          THEN [Failure("login", 400, "Inactive user", "inactive_user_login")
                  EXCEPT !.username = ident]
        ELSE NoResp

\* login charging the limiter only for the attempts that fail
LoginAuth_success_free(p, ident, password, client_ip, db_ok) ==
    /\ StartRequest(p)
    /\ LET lim == check(cache, last_cleanup, client_ip, now)
           r == login_checks(users, lim.allowed, ident, password, now, db_ok)
           user == authenticate_user(users, ident, password, now)
       IN  /\ cache' = IF r = NoResp THEN cache ELSE lim.cache
           /\ last_cleanup' = lim.last_cleanup
           /\ IF lim.allowed THEN Event ELSE nev' = nev
           /\ IF r # NoResp
                THEN Respond(p, r)
                ELSE Continue(p, "login_store",
                       [NoLoc EXCEPT
                          !.user_id = user,
                          !.access_token = create_access_token(
                              user, access_token_expires, token_data(users, user), now),
                          !.refresh_token = create_refresh_token(
                              user, refresh_token_expires, token_data(users, user), now)])
    /\ UNCHANGED <<now, users, store, issued, loggedOut, call, assignments, reports>>

\* _authenticate_and_create_tokens up to the await on store_refresh_token
LoginAuth(p, ident, password, client_ip, db_ok) ==
    /\ StartRequest(p)
    /\ LET lim == check(cache, last_cleanup, client_ip, now)
           r == login_checks(users, lim.allowed, ident, password, now, db_ok)
           user == authenticate_user(users, ident, password, now)
       IN  /\ cache' = lim.cache
           /\ last_cleanup' = lim.last_cleanup
           /\ IF lim.allowed THEN Event ELSE nev' = nev
           /\ IF r # NoResp
                THEN Respond(p, r)
                ELSE Continue(p, "login_store",
                       [NoLoc EXCEPT
                          !.user_id = user,
                          !.access_token = create_access_token(
                              user, access_token_expires, token_data(users, user), now),
                          !.refresh_token = create_refresh_token(
                              user, refresh_token_expires, token_data(users, user), now)])
    /\ UNCHANGED <<now, users, store, issued, loggedOut, call, assignments, reports>>

\* login ignoring a failure of store_refresh_token without logging it
LoginStore_silent(p, db_ok) ==
    /\ Quiet
    /\ pc[p] = "login_store"
    /\ LET stored == db_ok /\ CanInsert(store, users, loc[p].user_id,
                                         loc[p].refresh_token)
       IN  /\ store' = IF stored
                         THEN store_refresh_token(store, loc[p].user_id,
                                                  loc[p].refresh_token, now)
                         ELSE store
           /\ Respond(p, [NoResp EXCEPT
                            !.op = "login", !.status = 200, !.event = "login_success",
                            !.access_token = loc[p].access_token,
                            !.refresh_token = loc[p].refresh_token,
                            !.expires_at = now + access_token_expires])
           /\ loggedOut' = IF stored THEN loggedOut \ {loc[p].refresh_token}
                           ELSE loggedOut
    /\ issued' = issued \cup {loc[p].access_token, loc[p].refresh_token}
    /\ UNCHANGED <<now, users, cache, last_cleanup, nev, call, assignments, reports>>

\* login failing when store_refresh_token fails
LoginStore_abort(p, db_ok) ==
    /\ Quiet
    /\ pc[p] = "login_store"
    /\ LET stored == db_ok /\ CanInsert(store, users, loc[p].user_id,
                                         loc[p].refresh_token)
       IN  IF stored
             THEN /\ store' = store_refresh_token(store, loc[p].user_id,
                                                  loc[p].refresh_token, now)
                  /\ Respond(p, [NoResp EXCEPT
                                   !.op = "login", !.status = 200,
                                   !.event = "login_success",
                                   !.access_token = loc[p].access_token,
                                   !.refresh_token = loc[p].refresh_token,
                                   !.expires_at = now + access_token_expires])
                  /\ loggedOut' = loggedOut \ {loc[p].refresh_token}
                  /\ issued' = issued \cup {loc[p].access_token, loc[p].refresh_token}
             ELSE /\ Respond(p, [Failure("login", 500,
                                    "An unexpected error occurred during login",
                                    "login_error")
                                 EXCEPT !.warning = "refresh_token_storage_failed"])
                  /\ UNCHANGED <<store, loggedOut, issued, reports>>
    /\ UNCHANGED <<now, users, cache, last_cleanup, nev, call, assignments, reports>>

\* store_refresh_token, whose failure is logged and ignored, and the response
LoginStore(p, db_ok) ==
    /\ Quiet
    /\ pc[p] = "login_store"
    /\ LET stored == db_ok /\ CanInsert(store, users, loc[p].user_id,
                                         loc[p].refresh_token)
       IN  /\ store' = IF stored
                         THEN store_refresh_token(store, loc[p].user_id,
                                                  loc[p].refresh_token, now)
                         ELSE store
           /\ Respond(p, [NoResp EXCEPT
                            !.op = "login", !.status = 200, !.event = "login_success",
                            !.warning = IF stored THEN ""
                                        ELSE "refresh_token_storage_failed",
                            !.access_token = loc[p].access_token,
                            !.refresh_token = loc[p].refresh_token,
                            !.expires_at = now + access_token_expires])
           /\ loggedOut' = IF stored THEN loggedOut \ {loc[p].refresh_token}
                           ELSE loggedOut
    /\ issued' = issued \cup {loc[p].access_token, loc[p].refresh_token}
    /\ UNCHANGED <<now, users, cache, last_cleanup, nev, call, assignments, reports>>

\* ---------------------------------------------------------------- refresh
\* what a client can present: a token it was given, a token signed with
\* another key (with the payload of a real one, possibly retagged), or nothing
Forged(t) == [t EXCEPT !.key = "other_key"]
Retagged(t) == [key |-> "other_key", payload |-> [t.payload EXCEPT !.type = "refresh"]]
Presentable == issued \cup {Forged(t) : t \in issued} \cup {Retagged(t) : t \in issued}
                      \cup {EmptyToken}

\* refresh_checks without the store's validation of the token
refresh_checks_unvalidated(st, refresh_token, t, db_ok) ==
    LET user_id == verify_refresh_token(refresh_token, t)
    IN  IF refresh_token = EmptyToken
          THEN Failure("refresh", 400, "Refresh token is required",
                       "refresh_token_missing")
        ELSE IF user_id = None
          THEN Failure("refresh", 401, "Invalid or expired refresh token",
                       "invalid_refresh_token")
        ELSE IF ~db_ok
          THEN Failure("refresh", 500,
                       "An unexpected error occurred while refreshing token",
                       "refresh_token_error")
        ELSE NoResp

\* the checks of refresh_access_token up to the await on get_user_by_id: the
\* failure it answers with, or NoResp when the request passes them
refresh_checks(st, refresh_token, t, db_ok) ==
    LET user_id == verify_refresh_token(refresh_token, t)
    IN  IF refresh_token = EmptyToken
          THEN Failure("refresh", 400, "Refresh token is required",
                       "refresh_token_missing")
        ELSE IF user_id = None
          THEN Failure("refresh", 401, "Invalid or expired refresh token",
                       "invalid_refresh_token")
        ELSE IF ~db_ok
          THEN Failure("refresh", 500,
                       "An unexpected error occurred while refreshing token",
                       "refresh_token_error")
        ELSE IF ~validate_refresh_token(st, user_id, refresh_token, t)
          THEN Failure("refresh", 401, "Refresh token has been revoked",
                       "revoked_refresh_token")
        ELSE NoResp

\* refresh revoking the presented token once it has validated it
RefreshValidate_consume(p, refresh_token, db_ok) ==
    /\ StartRequest(p)
    /\ LET r == refresh_checks(store, refresh_token, now, db_ok)
       IN  IF r # NoResp THEN Reject(p, r) /\ store' = store
           ELSE /\ Event
                /\ Continue(p, "refresh_user",
                            [NoLoc EXCEPT !.token = refresh_token,
                                          !.user_id = verify_refresh_token(refresh_token, now)])
                /\ store' = {IF x.token = refresh_token THEN [x EXCEPT !.isRevoked = TRUE]
                                                        ELSE x : x \in store}
    /\ UNCHANGED <<now, users, cache, last_cleanup, issued, loggedOut, call, assignments, reports>>

\* refresh_access_token up to the await on get_user_by_id
RefreshValidate(p, refresh_token, db_ok) ==
    /\ StartRequest(p)
    /\ LET r == refresh_checks(store, refresh_token, now, db_ok)
       IN  IF r # NoResp THEN Reject(p, r)
           ELSE /\ Event
                /\ Continue(p, "refresh_user",
                            [NoLoc EXCEPT !.token = refresh_token,
                                          !.user_id = verify_refresh_token(refresh_token, now)])
    /\ UNCHANGED <<now, users, store, cache, last_cleanup, issued, loggedOut, call, assignments, reports>>

\* refresh minting from the claims of the refresh token when the store raises
refresh_response_failopen(us, user_id, refresh_token, t, db_ok) ==
    IF db_ok /\ get_user_by_id(us, user_id) = None
      THEN Failure("refresh", 401, "User not found", "refresh_token_user_not_found")
    ELSE [NoResp EXCEPT
            !.op = "refresh", !.status = 200, !.event = "token_refreshed",
            !.access_token = create_access_token(
                user_id, access_token_expires,
                [role |-> refresh_token.payload.role, name |-> refresh_token.payload.name,
                 branchId |-> refresh_token.payload.branchId], t),
            !.refresh_token = refresh_token,
            !.expires_at = t + access_token_expires]

\* refresh copying the claims of the refresh token instead of the stored ones
refresh_response_stale(us, user_id, refresh_token, t, db_ok) ==
    IF ~db_ok
      THEN Failure("refresh", 500, "An unexpected error occurred while refreshing token",
                   "refresh_token_error")
    ELSE IF get_user_by_id(us, user_id) = None
      THEN Failure("refresh", 401, "User not found", "refresh_token_user_not_found")
    ELSE [NoResp EXCEPT
            !.op = "refresh", !.status = 200, !.event = "token_refreshed",
            !.access_token = create_access_token(
                user_id, access_token_expires,
                [role |-> refresh_token.payload.role, name |-> refresh_token.payload.name,
                 branchId |-> refresh_token.payload.branchId], t),
            !.refresh_token = refresh_token,
            !.expires_at = t + access_token_expires]

\* refresh answering a failure of the store with the text of the exception
refresh_response_leak(us, user_id, refresh_token, t, db_ok) ==
    IF ~db_ok
      THEN Failure("refresh", 500, "OperationalError: connection refused",
                   "refresh_token_error")
    ELSE IF get_user_by_id(us, user_id) = None
      THEN Failure("refresh", 401, "User not found", "refresh_token_user_not_found")
    ELSE [NoResp EXCEPT
            !.op = "refresh", !.status = 200, !.event = "token_refreshed",
            !.access_token = create_access_token(
                user_id, access_token_expires, token_data(us, user_id), t),
            !.refresh_token = refresh_token,
            !.expires_at = t + access_token_expires]

\* the rest of refresh_access_token: get_user_by_id, the new access token and
\* the response
refresh_response(us, user_id, refresh_token, t, db_ok) ==
    IF ~db_ok
      THEN Failure("refresh", 500, "An unexpected error occurred while refreshing token",
                   "refresh_token_error")
    ELSE IF get_user_by_id(us, user_id) = None
      THEN Failure("refresh", 401, "User not found", "refresh_token_user_not_found")
    ELSE [NoResp EXCEPT
            !.op = "refresh", !.status = 200, !.event = "token_refreshed",
            !.access_token = create_access_token(
                user_id, access_token_expires, token_data(us, user_id), t),
            !.refresh_token = refresh_token,
            !.expires_at = t + access_token_expires]

RefreshUser(p, db_ok) ==
    /\ Quiet
    /\ pc[p] = "refresh_user"
    /\ LET r == refresh_response(users, loc[p].user_id, loc[p].token, now, db_ok)
       IN  /\ Respond(p, r)
           /\ issued' = IF r.status = 200 THEN issued \cup {r.access_token} ELSE issued
    /\ UNCHANGED <<now, users, store, cache, last_cleanup, nev, loggedOut, call, assignments, reports>>

\* ------------------------------------------------- the access-token gate
\* the gate without the check of the active flag
get_current_active_user_inactive(us, token, t, db_ok) ==
    LET payload == decode_access_token(token, t)
        user_id == PayloadGet(payload, "sub")
        denied == [ok |-> FALSE, status |-> 401, detail |-> "Could not validate credentials",
                   user |-> None]
    IN  IF payload = NoToken.payload THEN denied
        ELSE IF user_id = None THEN denied
        ELSE IF ~db_ok THEN [denied EXCEPT !.status = 500, !.detail = "Internal Server Error"]
        ELSE IF get_user_by_id(us, user_id) = None THEN denied
        ELSE [ok |-> TRUE, status |-> 200, detail |-> "", user |-> user_id]

\* the gate turning down the tokens of an identity without a live session
get_current_active_user_session(us, token, t, db_ok) ==
    LET payload == decode_access_token(token, t)
        user_id == PayloadGet(payload, "sub")
        denied == [ok |-> FALSE, status |-> 401, detail |-> "Could not validate credentials",
                   user |-> None]
    IN  IF payload = NoToken.payload THEN denied
        ELSE IF user_id = None THEN denied
        ELSE IF ~db_ok THEN [denied EXCEPT !.status = 500, !.detail = "Internal Server Error"]
        ELSE IF get_user_by_id(us, user_id) = None THEN denied
        ELSE IF ~is_active(us, user_id)
          THEN [denied EXCEPT !.status = 400, !.detail = "Inactive user"]
        ELSE IF \A r \in store : r.userId = user_id => r.isRevoked THEN denied
        ELSE [ok |-> TRUE, status |-> 200, detail |-> "", user |-> user_id]

\* get_current_user followed by get_current_active_user
get_current_active_user(us, token, t, db_ok) ==
    LET payload == decode_access_token(token, t)
        user_id == PayloadGet(payload, "sub")
        denied == [ok |-> FALSE, status |-> 401, detail |-> "Could not validate credentials",
                   user |-> None]
    IN  IF payload = NoToken.payload THEN denied
        ELSE IF user_id = None THEN denied
        ELSE IF ~db_ok THEN [denied EXCEPT !.status = 500, !.detail = "Internal Server Error"]
        ELSE IF get_user_by_id(us, user_id) = None THEN denied
        ELSE IF ~is_active(us, user_id)
          THEN [denied EXCEPT !.status = 400, !.detail = "Inactive user"]
        ELSE [ok |-> TRUE, status |-> 200, detail |-> "", user |-> user_id]

\* GET /verify-token: a protected operation that does nothing but the gate
Authorize(p, token, db_ok) ==
    /\ StartRequest(p)
    /\ LET g == get_current_active_user(users, token, now, db_ok)
       IN  IF ~g.ok THEN Reject(p, Failure("authorize", g.status, g.detail, ""))
           ELSE Reject(p, [NoResp EXCEPT !.op = "authorize",
                                         !.status = 200, !.detail = "Token is valid",
                                         !.event = "token_verified", !.user_id = g.user])
    /\ UNCHANGED <<now, users, store, cache, last_cleanup, issued, loggedOut, call, assignments, reports>>

\* ----------------------------------------------------------------- logout
\* the dependency of logout, up to the await on invalidate_all_refresh_tokens
LogoutAuth(p, token, db_ok) ==
    /\ StartRequest(p)
    /\ LET g == get_current_active_user(users, token, now, db_ok)
       IN  IF ~g.ok THEN Reject(p, Failure("logout", g.status, g.detail, ""))
           ELSE /\ Event
                /\ Continue(p, "logout_revoke",
                            [NoLoc EXCEPT !.token = token, !.user_id = g.user])
    /\ UNCHANGED <<now, users, store, cache, last_cleanup, issued, loggedOut, call, assignments, reports>>

\* logout answering with success although the store raised
LogoutRevoke_swallow(p, db_ok) ==
    /\ Quiet
    /\ pc[p] = "logout_revoke"
    /\ store' = IF db_ok THEN invalidate_all_refresh_tokens(store, loc[p].user_id)
                         ELSE store
    /\ loggedOut' = loggedOut \cup
           {t \in issued : /\ t.payload.type = "refresh"
                           /\ t.payload.sub = loc[p].user_id}
    /\ Respond(p, [NoResp EXCEPT !.op = "logout", !.status = 200,
                                 !.detail = "Successfully logged out",
                                 !.event = "user_logout",
                                 !.user_id = loc[p].user_id])
    /\ UNCHANGED <<now, users, cache, last_cleanup, issued, nev, call, assignments, reports>>

\* logout deleting the rows of the identity instead of flagging them
LogoutRevoke_delete(p, db_ok) ==
    /\ Quiet
    /\ pc[p] = "logout_revoke"
    /\ IF ~db_ok
         THEN /\ Respond(p, Failure("logout", 500,
                              "An error occurred during logout", "logout_error"))
              /\ UNCHANGED <<store, loggedOut, reports>>
         ELSE /\ store' = {r \in store : r.userId # loc[p].user_id}
              /\ loggedOut' = loggedOut \cup
                     {t \in issued : /\ t.payload.type = "refresh"
                                     /\ t.payload.sub = loc[p].user_id}
              /\ Respond(p, [NoResp EXCEPT !.op = "logout", !.status = 200,
                                           !.detail = "Successfully logged out",
                                           !.event = "user_logout",
                                           !.user_id = loc[p].user_id])
    /\ UNCHANGED <<now, users, cache, last_cleanup, issued, nev, call, assignments, reports>>

\* logout revoking the records of every identity
LogoutRevoke_everyone(p, db_ok) ==
    /\ Quiet
    /\ pc[p] = "logout_revoke"
    /\ IF ~db_ok
         THEN /\ Respond(p, Failure("logout", 500,
                              "An error occurred during logout", "logout_error"))
              /\ UNCHANGED <<store, loggedOut, reports>>
         ELSE /\ store' = {[r EXCEPT !.isRevoked = TRUE] : r \in store}
              /\ loggedOut' = loggedOut \cup
                     {t \in issued : /\ t.payload.type = "refresh"
                                     /\ t.payload.sub = loc[p].user_id}
              /\ Respond(p, [NoResp EXCEPT !.op = "logout", !.status = 200,
                                           !.detail = "Successfully logged out",
                                           !.event = "user_logout",
                                           !.user_id = loc[p].user_id])
    /\ UNCHANGED <<now, users, cache, last_cleanup, issued, nev, call, assignments, reports>>

\* invalidate_all_refresh_tokens and the response
LogoutRevoke(p, db_ok) ==
    /\ Quiet
    /\ pc[p] = "logout_revoke"
    /\ IF ~db_ok
         THEN /\ Respond(p, Failure("logout", 500,
                              "An error occurred during logout", "logout_error"))
              /\ UNCHANGED <<store, loggedOut, reports>>
         ELSE /\ store' = invalidate_all_refresh_tokens(store, loc[p].user_id)
              /\ loggedOut' = loggedOut \cup
                     {t \in issued : /\ t.payload.type = "refresh"
                                     /\ t.payload.sub = loc[p].user_id}
              /\ Respond(p, [NoResp EXCEPT !.op = "logout", !.status = 200,
                                           !.detail = "Successfully logged out",
                                           !.event = "user_logout",
                                           !.user_id = loc[p].user_id])
    /\ UNCHANGED <<now, users, cache, last_cleanup, issued, nev, call, assignments, reports>>

\* ------------------------------------------------------------ environment
\* the client takes the response
Deliver ==
    /\ ~Quiet
    /\ out' = NoResp
    /\ UNCHANGED <<now, users, store, cache, last_cleanup, issued, pc, loc, nev, loggedOut, call, assignments, reports>>

\* the clock advances by a day or a week; no request stays in flight that long
Tick(d) ==
    /\ Event
    /\ \A p \in Procs : pc[p] = "idle"
    /\ now' = now + d
    /\ out' = NoResp
    /\ UNCHANGED <<users, store, cache, last_cleanup, issued, pc, loc, loggedOut, call, assignments, reports>>

\* PUT /users/{user_id}: the fields given in user_in replace those of the row
UserUpdates ==
    [field : {"role"}, value : Roles] \cup [field : {"name"}, value : Names] \cup
    [field : {"branchId"}, value : Branches] \cup [field : {"isActive"}, value : BOOLEAN]

update_user(row, user_in) ==
    [f \in DOMAIN row |-> IF f = user_in.field THEN user_in.value ELSE row[f]]

UpdateUser(u, user_in) ==
    /\ Event
    /\ users[u].exists
    /\ users' = [users EXCEPT ![u] = update_user(@, user_in)]
    /\ users' # users
    /\ out' = NoResp
    /\ UNCHANGED <<now, store, cache, last_cleanup, issued, pc, loc, loggedOut, call, assignments, reports>>

\* DELETE /users/{user_id}: the row goes, and with it (ON DELETE CASCADE) the
\* refresh-token rows and the branch assignments of the user
DeleteUser(u) ==
    /\ Event
    /\ users[u].exists
    /\ users' = [users EXCEPT ![u] = NoUser]
    /\ store' = {r \in store : r.userId # u}
    /\ out' = NoResp
    /\ assignments' = {a \in assignments : a.userId # u}
    /\ UNCHANGED <<now, cache, last_cleanup, issued, pc, loc, loggedOut, call, reports>>

\* the requests of the contexts P, the delivery of responses and the clock
Serve(P) ==
    \/ \E p \in P, ident \in Identifiers, password \in Passwords, ip \in Clients,
          db_ok \in BOOLEAN : LoginAuth(p, ident, password, ip, db_ok)
    \/ \E p \in P, db_ok \in BOOLEAN : LoginStore(p, db_ok)
    \/ \E p \in P, t \in Presentable, db_ok \in BOOLEAN : RefreshValidate(p, t, db_ok)
    \/ \E p \in P, db_ok \in BOOLEAN : RefreshUser(p, db_ok)
    \/ \E p \in P, t \in Presentable, db_ok \in BOOLEAN : Authorize(p, t, db_ok)
    \/ \E p \in P, t \in Presentable, db_ok \in BOOLEAN : LogoutAuth(p, t, db_ok)
    \/ \E p \in P, db_ok \in BOOLEAN : LogoutRevoke(p, db_ok)
    \/ Deliver
    \/ \E d \in TickSteps : Tick(d)

\* concurrent requests over a fixed User table
Next == Serve(Procs)

Spec == Init /\ [][Next]_vars

\* one request at a time, while the User row of one identity changes under it
Changing == {"u1"}

NextUsers ==
    \/ Serve({"p1"})
    \/ \E u \in Changing, user_in \in UserUpdates : UpdateUser(u, user_in)
    \/ \E u \in Changing : DeleteUser(u)

SpecUsers == Init /\ [][NextUsers]_vars

\* concurrent login attempts of two clients, with an unknown identifier or
\* with the credentials of an identity, at the time scale of the limiter
InitLimiter ==
    /\ now = 0
    /\ users = [u \in UserIds |-> InitUser(u)]
    /\ store = {}
    /\ cache = <<>>
    /\ last_cleanup = 0
    /\ issued = {}
    /\ pc = [p \in Procs |-> "idle"]
    /\ loc = [p \in Procs |-> NoLoc]
    /\ out = NoResp
    /\ nev = MaxEvents - MaxAttempts
    /\ loggedOut = {}
    /\ call = NoCall
    /\ assignments = {}
    /\ reports = NoReports

NextLimiter ==
    \/ \E p \in Procs, ip \in LimiterClients, ident \in {"nobody", "u1"} :
          /\ ip = "ip1" \/ Len(CacheGet(cache, ip)) < MaxOther
          /\ LoginAuth(p, ident, "secret", ip, TRUE)
    \/ \E p \in Procs : LoginStore(p, TRUE)
    \/ Deliver
    \/ \E d \in LimiterSteps : now + d \in LimiterTimes /\ Tick(d)

SpecLimiter == InitLimiter /\ [][NextLimiter]_vars

\* the requests of one client after another over a User table in which the
\* row of u1 may hold a lock-until timestamp: the column is nullable and no
\* code of the service writes it, so the rows are taken as they may be found
LockTimes == {NoTime, access_token_expires}

InitLock ==
    /\ now = 0
    /\ \E lockedUntil \in LockTimes :
          users = [u \in UserIds |->
                     IF u = "u1" THEN [InitUser(u) EXCEPT !.lockedUntil = lockedUntil]
                     ELSE InitUser(u)]
    /\ store = {}
    /\ cache = <<>>
    /\ last_cleanup = 0
    /\ issued = {}
    /\ pc = [p \in Procs |-> "idle"]
    /\ loc = [p \in Procs |-> NoLoc]
    /\ out = NoResp
    /\ nev = 0
    /\ loggedOut = {}
    /\ call = NoCall
    /\ assignments = {}
    /\ reports = NoReports

NextLock == Serve({"p1"})

SpecLock == InitLock /\ [][NextLock]_vars

\* login attempts of two clients at the time scale of the sweep: around one
\* and around two cleanup intervals after the construction of the limiter
SweepTimes == {0, cleanup_interval, cleanup_interval + 1, 2 * cleanup_interval + 1,
               2 * cleanup_interval + 2}

NextSweep ==
    \/ \E p \in Procs, ip \in LimiterClients :
          /\ ip = "ip1" \/ Len(InWindow(CacheGet(cache, ip), now)) < MaxOther
          /\ LoginAuth(p, "nobody", "secret", ip, TRUE)
    \/ Deliver
    \/ \E d \in LimiterSteps : now + d \in SweepTimes /\ Tick(d)

SpecSweep == InitLimiter /\ [][NextSweep]_vars

\* ------------------------------------------------- permissions and gates
\* the values of the enumerations Permission and UserRole
Permission ==
    {"manage_users", "view_users", "manage_branches", "view_branches",
     "create_reports", "edit_reports", "delete_reports", "view_reports",
     "approve_reports", "edit_own_reports", "delete_own_reports",
     "add_comments", "edit_comments", "delete_comments", "edit_own_comments",
     "delete_own_comments"}

UserRole == {"admin", "manager", "user", "readonly"}

\* the table with manage_branches missing from the admin's set
ROLE_PERMISSIONS_partial ==
    [r \in UserRole |-> IF r = "admin" THEN Permission \ {"manage_branches"} ELSE {}]

\* the table with a permission of the manager given to the readonly role
ROLE_PERMISSIONS_readonly_extra ==
    [r \in UserRole |->
       CASE r = "admin" -> Permission
         [] r = "manager" -> {"view_users", "view_branches", "view_reports"}
         [] r = "user" -> {"view_branches", "view_reports"}
         [] r = "readonly" -> {"view_users", "view_branches"}]

ROLE_PERMISSIONS ==
    [r \in UserRole |->
       CASE r = "admin" -> Permission
         [] r = "manager" ->
              {"view_users", "view_branches", "create_reports", "edit_reports",
               "view_reports", "approve_reports", "edit_own_reports",
               "delete_own_reports", "add_comments", "edit_comments",
               "delete_comments", "edit_own_comments", "delete_own_comments"}
         [] r = "user" ->
              {"view_branches", "create_reports", "view_reports", "edit_own_reports",
               "delete_own_reports", "add_comments", "edit_own_comments",
               "delete_own_comments"}
         [] r = "readonly" ->
              {"view_branches", "view_reports", "add_comments", "edit_own_comments",
               "delete_own_comments"}]

\* check_permission granting the admin whatever string is asked for
check_permission_lenient(role, permission) ==
    IF role \notin UserRole THEN FALSE
    ELSE IF role = "admin" THEN TRUE
    ELSE IF permission \notin Permission THEN FALSE
    ELSE permission \in ROLE_PERMISSIONS[role]

\* UserRole(role) and Permission(permission) raise ValueError for a string that
\* is no value of the enumeration; both are caught
check_permission(role, permission) ==
    IF role \notin UserRole THEN FALSE
    ELSE IF permission \notin Permission THEN FALSE
    ELSE permission \in ROLE_PERMISSIONS[role]

get_role_permissions(role) ==
    IF role \notin UserRole THEN {} ELSE ROLE_PERMISSIONS[role]

\* what a gate gives the request: the identity goes through (ok), or the
\* HTTPException it raises, or the exception it lets escape (raised), which
\* the framework answers with 500; lookup: the gate read the branch tables
Passed == [ok |-> TRUE, status |-> 200, detail |-> "", raised |-> "", lookup |-> FALSE]
Forbidden(detail) ==
    [ok |-> FALSE, status |-> 403, detail |-> detail, raised |-> "HTTPException",
     lookup |-> FALSE]
Crashed(exception) ==
    [ok |-> FALSE, status |-> 500, detail |-> "Internal Server Error", raised |-> exception,
     lookup |-> FALSE]

\* PermissionDependency.__call__
PermissionDependency(us, u, required_permission) ==
    IF ~check_permission(us[u].role, required_permission)
      THEN Forbidden("Insufficient permissions")
    ELSE Passed

\* RoleDependency.__call__: UserRole(current_user.role) is not guarded
RoleDependency(us, u, required_roles) ==
    IF us[u].role \notin UserRole THEN Crashed("ValueError")
    ELSE IF us[u].role \notin required_roles THEN Forbidden("Insufficient role")
    ELSE Passed

\* the rows of table Branch
BranchTable == Branches

\* get_user_branches: the ids of the branches it returns
get_user_branches(us, asg, user_id) ==
    IF us[user_id].exists /\ us[user_id].branchId # None
         /\ us[user_id].branchId \in BranchTable
      THEN {us[user_id].branchId}
    ELSE {a.branchId : a \in {x \in asg : x.userId = user_id}} \cap BranchTable

\* the branch gate asking the tables for the admin as well
BranchAccessDependency_no_bypass(us, asg, u, branch_id) ==
    IF branch_id = None THEN Passed
    ELSE IF branch_id \notin get_user_branches(us, asg, u) /\ us[u].branchId # branch_id
      THEN [Forbidden("You don't have access to this branch") EXCEPT !.lookup = TRUE]
    ELSE [Passed EXCEPT !.lookup = TRUE]

\* BranchAccessDependency.__call__; branch_id = None: the path has no such
\* parameter
BranchAccessDependency(us, asg, u, branch_id) ==
    IF us[u].role = "admin" THEN Passed
    ELSE IF branch_id = None THEN Passed
    ELSE IF branch_id \notin get_user_branches(us, asg, u) /\ us[u].branchId # branch_id
      THEN [Forbidden("You don't have access to this branch") EXCEPT !.lookup = TRUE]
    ELSE [Passed EXCEPT !.lookup = TRUE]

\* the strings handed to the permission functions and stored as a role: the
\* values of the enumerations and strings that are none
RoleStrings == UserRole \cup {"Admin", "superuser"}
PermissionStrings == Permission \cup {"MANAGE_USERS", "fly"}
RequiredRoles == {{r} : r \in UserRole} \cup {{"admin", "manager"}}

\* the branch ids of the UserBranchAssignment rows of user_id
AssignedTo(asg, user_id) == {a.branchId : a \in {x \in asg : x.userId = user_id}}

\* a call of a function or gate, as call records it: the identity it was
\* made for with its role, own branch and assignments at the time, the
\* argument and the result
GateCall(fn, u, role, arg, result) ==
    [fn |-> fn, user |-> u, role |-> role,
     branchId |-> IF u = None THEN None ELSE users[u].branchId,
     assigned |-> IF u = None THEN {} ELSE AssignedTo(assignments, u),
     arg |-> arg, result |-> result]

Called(c) ==
    /\ Quiet
    /\ call' = c
    /\ UNCHANGED <<now, users, store, cache, last_cleanup, issued, pc, loc, out, nev,
                   loggedOut, assignments, reports>>

CheckPermission(role, permission) ==
    Called(GateCall("check_permission", None, role, permission,
                    check_permission(role, permission)))

GetRolePermissions(role) ==
    Called(GateCall("get_role_permissions", None, role, None, get_role_permissions(role)))

\* the identity a gate receives is one get_current_active_user returned
Resolved(u) == users[u].exists /\ users[u].isActive

RequirePermission(u, required_permission) ==
    /\ Resolved(u)
    /\ Called(GateCall("PermissionDependency", u, users[u].role, required_permission,
                       PermissionDependency(users, u, required_permission)))

RequireRole(u, required_roles) ==
    /\ Resolved(u)
    /\ Called(GateCall("RoleDependency", u, users[u].role, required_roles,
                       RoleDependency(users, u, required_roles)))

RequireBranchAccess(u, branch_id) ==
    /\ Resolved(u)
    /\ Called(GateCall("BranchAccessDependency", u, users[u].role, branch_id,
                       BranchAccessDependency(users, assignments, u, branch_id)))

\* POST /branches/{branch_id}/assign-user/{user_id}, by an administrator
AssignUser(u, branch_id) ==
    /\ Event
    /\ branch_id \in BranchTable
    /\ users[u].exists
    /\ [userId |-> u, branchId |-> branch_id] \notin assignments
    /\ assignments' = assignments \cup {[userId |-> u, branchId |-> branch_id]}
    /\ out' = NoResp
    /\ UNCHANGED <<now, users, store, cache, last_cleanup, issued, pc, loc, loggedOut, call, reports>>

\* DELETE /branches/{branch_id}/remove-user/{user_id}
RemoveUser(u, branch_id) ==
    /\ Event
    /\ [userId |-> u, branchId |-> branch_id] \in assignments
    /\ assignments' = assignments \ {[userId |-> u, branchId |-> branch_id]}
    /\ out' = NoResp
    /\ UNCHANGED <<now, users, store, cache, last_cleanup, issued, pc, loc, loggedOut, call, reports>>

\* the role and the own branch a user update may store
GateUpdates ==
    [field : {"role"}, value : RoleStrings] \cup
    [field : {"branchId"}, value : Branches \cup {None}]

\* the permission functions on their own
NextPermissions ==
    \/ \E role \in RoleStrings, permission \in PermissionStrings :
          CheckPermission(role, permission)
    \/ \E role \in RoleStrings : GetRolePermissions(role)

SpecPermissions == Init /\ [][NextPermissions]_vars

\* the gates over the identities as administrators change them
NextGates ==
    \/ \E u \in UserIds, permission \in Permission : RequirePermission(u, permission)
    \/ \E u \in UserIds, required_roles \in RequiredRoles : RequireRole(u, required_roles)
    \/ \E u \in UserIds, branch_id \in Branches \cup {None} : RequireBranchAccess(u, branch_id)
    \/ \E u \in Changing, branch_id \in Branches : AssignUser(u, branch_id)
    \/ \E u \in Changing, branch_id \in Branches : RemoveUser(u, branch_id)
    \/ \E u \in Changing, user_in \in GateUpdates : UpdateUser(u, user_in)

SpecGates == Init /\ [][NextGates]_vars

\* ------------------------------------------- the token functions on their own
\* the claim bags a caller may hand over as extra_data: the ones login and
\* refresh build, and ones that name a claim the function sets itself
ClaimBags ==
    [role : Roles, name : Names, branchId : Branches]
      \cup {[type |-> k] : k \in {"access", "refresh"}}
      \cup {[sub |-> u] : u \in UserIds}
      \cup {[exp |-> 0]}

TokenFunctions == {"create_access_token", "create_refresh_token"}

\* a call of create_access_token or create_refresh_token with the default
\* expires_delta
CreateToken(fn, subject, extra_data) ==
    /\ Event
    /\ call' = [NoCall EXCEPT
                  !.fn = fn, !.subject = subject, !.extra_data = extra_data,
                  !.at = now,
                  !.token = IF fn = "create_access_token"
                            THEN create_access_token(subject, access_token_expires,
                                                     extra_data, now)
                            ELSE create_refresh_token(subject, refresh_token_expires,
                                                      extra_data, now)]
    /\ out' = NoResp
    /\ UNCHANGED <<now, users, store, cache, last_cleanup, issued, pc, loc, loggedOut,
                   assignments, reports>>

\* the token of the last call is verified where an expect token is expected
VerifyToken(expect) ==
    /\ Quiet
    /\ call.fn # "none"
    /\ call.expect # expect \/ call.verified_at # now
    /\ call' = [call EXCEPT !.expect = expect, !.verified_at = now,
                            !.outcome = VerifyOutcome(call.token, expect, now)]
    /\ UNCHANGED <<now, users, store, cache, last_cleanup, issued, pc, loc, out, nev,
                   loggedOut, assignments, reports>>

NextTokens ==
    \/ \E fn \in TokenFunctions, subject \in UserIds, extra_data \in ClaimBags :
          CreateToken(fn, subject, extra_data)
    \/ \E expect \in {"access", "refresh"} : VerifyToken(expect)
    \/ \E d \in TickSteps : Tick(d)

SpecTokens == Init /\ [][NextTokens]_vars

\* ================================================================= claims
\* (a) the signature and the embedded expiry are valid and the kind is refresh
SignedRefresh(t) ==
    /\ t.key = SECRET_KEY
    /\ t.payload.type = "refresh"
    /\ ~(t.payload.exp < now)

\* (b) a record matches the token string and the token's subject, and
\* (c) it is not revoked and its stored expiry has not elapsed
LiveRecord(t) ==
    \E r \in store : /\ r.token = t
                     /\ r.userId = t.payload.sub
                     /\ ~r.isRevoked
                     /\ now < r.expiresAt

Usable(t) == SignedRefresh(t) /\ LiveRecord(t)

IsAccessTokenOf(t, u) ==
    /\ t.key = SECRET_KEY
    /\ t.payload.type = "access"
    /\ t.payload.sub = u

\* a request for refresh passes its checks / is answered
RefreshPasses(p) == pc[p] = "idle" /\ pc'[p] = "refresh_user"
RefreshAnswers(p) == pc[p] = "refresh_user" /\ pc'[p] = "idle"
\* a request is turned down by its first checks
Rejected(op) == out = NoResp /\ out'.op = op /\ pc' = pc

\* ---- C1
\* C1 as stated: refresh mints a new access token for a presented refresh
\* token if and only if (a), (b) and (c) hold of it; in every other case it
\* fails and mints nothing.  Here: a presented token passes the checks of
\* refresh exactly when it is usable, and a request whose token is usable when
\* it is answered is answered with a new access token.
C1_Original ==
    /\ [](\A t \in Presentable, db_ok \in BOOLEAN :
            (refresh_checks(store, t, now, db_ok) = NoResp) <=> Usable(t))
    /\ [][\A p \in Procs :
            (RefreshAnswers(p) /\ Usable(loc[p].token)) => out'.status = 200]_vars

\* C1 as amended: refresh mints a new access token for a presented refresh
\* token if and only if (a), (b) and (c) hold of it when the store validates
\* it, the store answers both the validation and the re-fetch of the identity,
\* and the identity still exists at the re-fetch; in every other case refresh
\* answers with a failure and mints nothing.
C1_RefreshIffUsable ==
    /\ [](\A t \in Presentable, db_ok \in BOOLEAN :
            (refresh_checks(store, t, now, db_ok) = NoResp) <=> (Usable(t) /\ db_ok))
    /\ [][\A p \in Procs :
            /\ RefreshPasses(p) => Usable(loc'[p].token)
            /\ Rejected("refresh") => (out'.status # 200 /\ out'.access_token = NoToken
                                       /\ issued' = issued)
            /\ RefreshAnswers(p) =>
                 IF out'.event # "refresh_token_error" /\ users[loc[p].user_id].exists
                   THEN /\ out'.status = 200
                        /\ IsAccessTokenOf(out'.access_token, loc[p].user_id)
                        /\ issued' = issued \cup {out'.access_token}
                   ELSE /\ out'.status # 200
                        /\ out'.access_token = NoToken
                        /\ issued' = issued]_vars

\* a refresh has minted an access token while another refresh token of the
\* store is revoked
C1_Witness ==
    /\ out.op = "refresh" /\ out.status = 200
    /\ out.access_token \in issued
    /\ Usable(out.refresh_token)
    /\ \E r \in store : r.isRevoked

\* ---- C2
\* a logout is answered with success
LogoutCompletes(p) == pc[p] = "logout_revoke" /\ pc'[p] = "idle" /\ out'.status = 200

\* C2: when a logout of an identity completes, every refresh-token record the
\* identity owned before the call is revoked, whichever login created it, and
\* from then on the store validates none of the identity's earlier refresh
\* tokens and refresh turns every one of them down, also while its signature
\* and embedded expiry are still valid.
C2_LogoutRevokesAll ==
    /\ [][\A p \in Procs :
            LogoutCompletes(p) =>
              \A r \in store :
                r.userId = loc[p].user_id =>
                  \E r2 \in store' : /\ r2.token = r.token
                                     /\ r2.userId = r.userId
                                     /\ r2.isRevoked]_vars
    /\ [](\A t \in loggedOut :
            /\ ~validate_refresh_token(store, t.payload.sub, t, now)
            /\ \A db_ok \in BOOLEAN : refresh_checks(store, t, now, db_ok) # NoResp)

\* after two logins of one identity at different times and its logout, both
\* refresh tokens are still correctly signed and unexpired, both records are
\* revoked and a refresh has been turned down as revoked
C2_Witness ==
    /\ out.op = "refresh" /\ out.event = "revoked_refresh_token"
    /\ \E t1, t2 \in loggedOut :
         /\ t1 # t2
         /\ t1.payload.sub = t2.payload.sub
         /\ SignedRefresh(t1) /\ SignedRefresh(t2)
         /\ \E r1, r2 \in store : /\ r1.token = t1 /\ r1.isRevoked
                                  /\ r2.token = t2 /\ r2.isRevoked

LoginAnswers(p) == pc[p] = "login_store" /\ pc'[p] = "idle"

\* C4: along login, refresh, logout, refresh with the same refresh token: a
\* successful login returns an access and a refresh token of the identity; a
\* successful refresh returns a new access token whose subject is the identity
\* of the refresh token and whose expiry is later than the issued-at of every
\* access token the identity was given before; after the logout a refresh with
\* the still unexpired, correctly signed refresh token fails with the
\* revoked-token error.
C4_SessionEndToEnd ==
    /\ [][\A p \in Procs :
            /\ (LoginAnswers(p) /\ out'.status = 200) =>
                 /\ IsAccessTokenOf(out'.access_token, loc[p].user_id)
                 /\ out'.refresh_token.key = SECRET_KEY
                 /\ out'.refresh_token.payload.type = "refresh"
                 /\ out'.refresh_token.payload.sub = loc[p].user_id
                 /\ {out'.access_token, out'.refresh_token} \subseteq issued'
            /\ (RefreshAnswers(p) /\ out'.status = 200) =>
                 /\ IsAccessTokenOf(out'.access_token, loc[p].token.payload.sub)
                 /\ \A a \in issued :
                      IsAccessTokenOf(a, loc[p].token.payload.sub) =>
                        out'.access_token.payload.exp > a.payload.iat]_vars
    /\ [](\A t \in loggedOut :
            SignedRefresh(t) =>
              LET r == refresh_checks(store, t, now, TRUE)
              IN  r.status = 401 /\ r.detail = "Refresh token has been revoked")

\* the identity logged in once, refreshed later (its only refresh token gave
\* it an access token issued after the login), logged out, and the refresh that
\* followed with the same, still valid token was answered with the
\* revoked-token error
C4_Witness ==
    /\ out.op = "refresh" /\ out.status = 401
    /\ out.detail = "Refresh token has been revoked"
    /\ \E t \in loggedOut :
         /\ SignedRefresh(t)
         /\ \A t2 \in issued :
              (t2.payload.type = "refresh" /\ t2.payload.sub = t.payload.sub) => t2 = t
         /\ \E r \in store : r.token = t /\ r.isRevoked
         /\ \E a \in issued : /\ IsAccessTokenOf(a, t.payload.sub)
                              /\ a.payload.iat > t.payload.iat

\* ---- C5
\* the response to a login carries both tokens / no token
ReturnsPair(o) ==
    /\ o.access_token.key = SECRET_KEY /\ o.access_token.payload.type = "access"
    /\ o.refresh_token.key = SECRET_KEY /\ o.refresh_token.payload.type = "refresh"
ReturnsNoToken(o) == o.access_token = NoToken /\ o.refresh_token = NoToken

\* a refresh sent right now with the token, the store answering, is answered
\* with a new access token
RefreshSucceedsNow(t) ==
    /\ refresh_checks(store, t, now, TRUE) = NoResp
    /\ refresh_response(users, t.payload.sub, t, now, TRUE).status = 200

\* C5 as stated: whenever login returns an access/refresh pair, the returned
\* refresh token has a persisted non-revoked record and a refresh that follows
\* immediately succeeds; otherwise login returns no token at all.
C5_Original ==
    out.op = "login" =>
      IF out.status = 200
        THEN /\ ReturnsPair(out)
             /\ LiveRecord(out.refresh_token)
             /\ RefreshSucceedsNow(out.refresh_token)
        ELSE ReturnsNoToken(out)

\* C5 as amended: a login returns either an access/refresh pair or no token at
\* all; when it returns a pair and persisting the refresh-token record did not
\* fail, the returned refresh token has a persisted non-revoked record and a
\* refresh that follows immediately succeeds (when persisting failed, the pair
\* is returned all the same, with a warning logged).
C5_LoginPairOrNothing ==
    out.op = "login" =>
      IF out.status = 200
        THEN /\ ReturnsPair(out)
             /\ out.warning = "" =>
                  /\ LiveRecord(out.refresh_token)
                  /\ RefreshSucceedsNow(out.refresh_token)
        ELSE ReturnsNoToken(out)

\* a login has returned a pair whose refresh token was persisted
C5_Witness ==
    /\ out.op = "login" /\ out.status = 200 /\ out.warning = ""
    /\ ReturnsPair(out)
    /\ RefreshSucceedsNow(out.refresh_token)

\* ---- C6
\* the access-token gate lets the token through, the store answering
Accepted(a) == get_current_active_user(users, a, now, TRUE).ok

\* C6: when persisting the refresh-token record fails during login, the login
\* still answers with success and both tokens, the access token it returns is
\* accepted by the gate of the protected operations, and a refresh with a
\* refresh token that has no record is turned down.
C6_StoreFailureKeepsLogin ==
    /\ (out.op = "login" /\ out.warning = "refresh_token_storage_failed") =>
         /\ out.status = 200
         /\ ReturnsPair(out)
         /\ Accepted(out.access_token)
    /\ \A t \in issued :
         (t.payload.type = "refresh" /\ \A r \in store : r.token # t) =>
           \A db_ok \in BOOLEAN : refresh_checks(store, t, now, db_ok) # NoResp

\* a login whose record could not be persisted returned its tokens, the access
\* token is accepted and the refresh with the unpersisted refresh token has
\* been turned down
C6_Witness ==
    /\ out.op = "refresh" /\ out.status = 401 /\ out.event = "revoked_refresh_token"
    /\ store = {}
    /\ \E a, t \in issued : /\ IsAccessTokenOf(a, t.payload.sub)
                            /\ Accepted(a)
                            /\ SignedRefresh(t)

\* ---- C7
\* C7: when the store raises during the validation or during the re-fetch of
\* the identity, refresh answers with a failure and issues no access token,
\* whatever refresh token is presented; for a usable token the failure is the
\* 500 of the handler.
C7_RefreshFailsClosed ==
    /\ [](/\ \A t \in Presentable :
               LET r == refresh_checks(store, t, now, FALSE)
               IN  /\ r # NoResp /\ r.status >= 400 /\ r.access_token = NoToken
                   /\ Usable(t) => r.status = 500
          /\ \A p \in Procs :
               pc[p] = "refresh_user" =>
                 LET r == refresh_response(users, loc[p].user_id, loc[p].token, now, FALSE)
                 IN  r.status = 500 /\ r.access_token = NoToken)
    /\ [][(out'.op = "refresh" /\ out'.event = "refresh_token_error") =>
            (out'.status = 500 /\ out'.access_token = NoToken /\ issued' = issued)]_vars

\* a refresh with a correctly signed, unexpired, persisted token was answered
\* with the 500 of a store failure
C7_Witness ==
    /\ out.op = "refresh" /\ out.status = 500 /\ out.event = "refresh_token_error"
    /\ out.access_token = NoToken
    /\ \A t \in issued : t.payload.type = "refresh" => Usable(t)
    /\ \E t \in issued : t.payload.type = "refresh"

\* ---- C8
\* C8: a successful refresh returns the refresh-token string it was given; no
\* step of a refresh creates, modifies or revokes a refresh-token record; a
\* refresh token that is usable, however often it has been refreshed, is
\* refreshed again by a request sent now.
C8_RefreshDoesNotRotate ==
    /\ [][\A p \in Procs :
            /\ (RefreshPasses(p) \/ RefreshAnswers(p) \/ Rejected("refresh")) =>
                 store' = store
            /\ (RefreshAnswers(p) /\ out'.status = 200) =>
                 out'.refresh_token = loc[p].token]_vars
    /\ [](\A t \in issued : Usable(t) => RefreshSucceedsNow(t))

\* the only refresh token of an identity has already been refreshed (an access
\* token of the identity was issued after the login) and a further refresh
\* with it has passed the validation and will be answered with success
C8_Witness ==
    \E p \in Procs :
      /\ pc[p] = "refresh_user"
      /\ Usable(loc[p].token)
      /\ RefreshSucceedsNow(loc[p].token)
      /\ \A t \in issued :
           (t.payload.type = "refresh" /\ t.payload.sub = loc[p].user_id) =>
             t = loc[p].token
      /\ \E a \in issued : /\ IsAccessTokenOf(a, loc[p].user_id)
                           /\ a.payload.iat > loc[p].token.payload.iat

\* ---- C9
\* the role, name and branch claims of a token are those of the stored identity
CarriesStored(a, u) ==
    /\ a.payload.role = users[u].role
    /\ a.payload.name = users[u].name
    /\ a.payload.branchId = users[u].branchId

\* C9: the access token returned by a successful refresh carries the role,
\* name and branch of the identity as stored when the refresh re-fetches it,
\* whatever the refresh token carries; a refresh for an identity that no
\* longer exists fails.
C9_RefreshCarriesStoredClaims ==
    /\ (out.op = "refresh" /\ out.status = 200) =>
         /\ IsAccessTokenOf(out.access_token, out.refresh_token.payload.sub)
         /\ CarriesStored(out.access_token, out.refresh_token.payload.sub)
    /\ \A t \in Presentable :
         (verify_refresh_token(t, now) # None /\ ~users[t.payload.sub].exists) =>
           refresh_checks(store, t, now, TRUE) # NoResp
    /\ \A p \in Procs :
         (pc[p] = "refresh_user" /\ ~users[loc[p].user_id].exists) =>
           refresh_response(users, loc[p].user_id, loc[p].token, now, TRUE).status = 401

\* a refresh returned an access token whose role differs from the role the
\* refresh token was given at login
C9_Witness ==
    /\ out.op = "refresh" /\ out.status = 200
    /\ CarriesStored(out.access_token, out.refresh_token.payload.sub)
    /\ out.access_token.payload.role # out.refresh_token.payload.role

\* a refresh passed the validation and the identity was deleted before the
\* re-fetch
C9_WitnessGone ==
    \E p \in Procs : pc[p] = "refresh_user" /\ ~users[loc[p].user_id].exists

Attempts(c, key) == IF key \in DOMAIN c THEN c[key] ELSE <<>>
RecentCount(c, key, t) ==
    Cardinality({i \in 1..Len(Attempts(c, key)) : t - Attempts(c, key)[i] <= time_frame})
\* timestamps are recorded in the order of the clock: the attempts within the
\* window are the last RecentCount of the list
Recent(c, key, t) ==
    SubSeq(Attempts(c, key), Len(Attempts(c, key)) - RecentCount(c, key, t) + 1,
           Len(Attempts(c, key)))

\* a login is answered as throttled / gets past the limiter
Throttled == out = NoResp /\ out'.op = "login" /\ out'.status = 429
Admitted ==
    \/ \E p \in Procs : pc[p] = "idle" /\ pc'[p] = "login_store"
    \/ out = NoResp /\ out'.op = "login" /\ out'.status \in {400, 401, 500} /\ pc' = pc

\* C11: check(key) returns true and appends the current timestamp to the
\* key's list exactly when fewer than max_calls recorded attempts of the key
\* lie within the trailing time_frame seconds; otherwise it returns false and
\* the key's in-window timestamps are unchanged.
C11_CheckAdmitsBelowLimit ==
    /\ [](\A key \in LimiterClients \cup {"ip3"} :
            LET r == check(cache, last_cleanup, key, now)
            IN  /\ r.allowed <=> RecentCount(cache, key, now) < max_calls
                /\ r.allowed => r.cache[key] = Append(Recent(cache, key, now), now)
                /\ ~r.allowed => Recent(r.cache, key, now) = Recent(cache, key, now))
    /\ [][/\ Throttled =>
               /\ \E key \in LimiterClients : RecentCount(cache, key, now) >= max_calls
               /\ \A key \in LimiterClients :
                    Recent(cache', key, now) = Recent(cache, key, now)
          /\ Admitted =>
               \E key \in LimiterClients :
                 /\ RecentCount(cache, key, now) < max_calls
                 /\ Attempts(cache', key) = Append(Recent(cache, key, now), now)]_vars

\* a login was throttled: max_calls attempts of the client lie within the window
C11_Witness ==
    /\ out.op = "login" /\ out.status = 429
    /\ \E key \in LimiterClients :
         /\ RecentCount(cache, key, now) = max_calls
         /\ ~check(cache, last_cleanup, key, now).allowed
    /\ \E key \in LimiterClients :
         /\ RecentCount(cache, key, now) \in 1..(max_calls - 1)
         /\ check(cache, last_cleanup, key, now).allowed

\* ---- C12
\* C12: with max_calls = N and time_frame = T, the checks of a key are
\* admitted as long as fewer than N of them lie in the window, the check that
\* follows N admitted ones inside the window is rejected, and as soon as more
\* than T seconds have passed since the oldest recorded (admitted) call of the
\* key a check is admitted again: rejected checks are not recorded and do not
\* postpone it.
C12_WindowResumes ==
    /\ [](\A key \in LimiterClients :
            LET l == Attempts(cache, key)
            IN  /\ Len(l) <= max_calls
                /\ \A d \in LimiterSteps \cup {0} :
                     LET r == check(cache, last_cleanup, key, now + d)
                     IN  /\ Len(l) < max_calls => r.allowed
                         /\ (Len(l) = max_calls /\ (now + d) - l[1] <= time_frame) =>
                              ~r.allowed
                         /\ (Len(l) > 0 /\ (now + d) - l[1] > time_frame) => r.allowed)
    /\ [][Throttled =>
            \E key \in LimiterClients :
              /\ Len(Attempts(cache, key)) = max_calls
              /\ now - Attempts(cache, key)[1] <= time_frame
              /\ Attempts(cache', key) = Attempts(cache, key)]_vars

\* max_calls attempts of a client were admitted, a further one is throttled
\* exactly time_frame seconds after the first, and one second later a check of
\* the client is admitted
C12_Witness ==
    /\ out.op = "login" /\ out.status = 429
    /\ now = time_frame
    /\ \E key \in LimiterClients :
         /\ Len(Attempts(cache, key)) = max_calls
         /\ Attempts(cache, key)[1] = 0
         /\ ~check(cache, last_cleanup, key, now).allowed
         /\ check(cache, last_cleanup, key, now + 1).allowed

\* ---- C13
\* C13: under every interleaving of the login requests of concurrent contexts
\* on the same and on different keys (check runs between two awaits, so the
\* calls themselves do not overlap), no key has more than max_calls admitted
\* calls within the trailing window, a call changes the in-window timestamps of
\* no other key, and no step loses an in-window timestamp or records more than
\* the one timestamp of the call it admits.
C13_CheckSafeUnderInterleaving ==
    /\ [](\A key \in LimiterClients :
            /\ RecentCount(cache, key, now) <= max_calls
            /\ \A i, j \in 1..Len(Attempts(cache, key)) :
                 i <= j => Attempts(cache, key)[i] <= Attempts(cache, key)[j]
            /\ \A other \in LimiterClients \ {key} :
                 LET r == check(cache, last_cleanup, key, now)
                 IN  Recent(r.cache, other, now) = Recent(cache, other, now))
    /\ [][now' = now =>
            /\ \A key \in LimiterClients :
                 \/ Recent(cache', key, now) = Recent(cache, key, now)
                 \/ Recent(cache', key, now) = Append(Recent(cache, key, now), now)
            /\ Cardinality({key \in LimiterClients :
                              Recent(cache', key, now) # Recent(cache, key, now)})
                 = IF Admitted THEN 1 ELSE 0]_vars

\* two logins are in flight at once and both clients have timestamps in the
\* window, one of them max_calls
C13_Witness ==
    /\ \A p \in Procs : pc[p] = "login_store"
    /\ \E key \in LimiterClients : RecentCount(cache, key, now) = max_calls
    /\ \A key \in LimiterClients : RecentCount(cache, key, now) > 0

\* ------------------------------------------------------------------ C14
\* the kind a token function issues
KindOf(fn) == IF fn = "create_access_token" THEN "access" ELSE "refresh"

\* the last call's token was verified on the spot as the kind it was issued as
VerifiedAtOnce ==
    /\ call.fn # "none"
    /\ call.expect = KindOf(call.fn)
    /\ call.verified_at = call.at

\* C14: for every subject and every claim bag handed to create_access_token or
\* create_refresh_token, verifying the token at once as the kind it was
\* issued as succeeds and gives back the subject and every claim of the bag
\* unchanged.
C14_TokenRoundTrip ==
    VerifiedAtOnce =>
        /\ call.outcome.ok
        /\ call.outcome.sub = call.subject
        /\ \A k \in DOMAIN call.extra_data :
              /\ k \in DOMAIN call.outcome.payload
              /\ call.outcome.payload[k] = call.extra_data[k]

\* ------------------------------------------------------------------ C15
\* a token is correctly signed, unexpired and carries the kind tag kind
ValidOfKind(t, kind) ==
    /\ jwt_decode(t, SECRET_KEY, now).ok
    /\ PayloadGet(t.payload, "type") = kind

\* what the gate of a protected operation answers to token t
GateAnswer(t) == get_current_active_user(users, t, now, TRUE)

\* what refresh answers to token t before it reads the identity
RefreshAnswer(t) == refresh_checks(store, t, now, TRUE)

\* the presented token of the other kind is turned down
KindRejected(t) ==
    /\ ValidOfKind(t, "refresh") => ~GateAnswer(t).ok
    /\ ValidOfKind(t, "access") => RefreshAnswer(t) # NoResp

\* C15: a refresh token presented where an access token is expected, and an
\* access token presented to refresh, is rejected although its signature and
\* expiry are valid, and the failure is an outcome of its own (WRONG_KIND),
\* not the one a badly signed token gets.
C15_KindsNotInterchangeable ==
    \A t \in issued :
        /\ KindRejected(t)
        /\ ValidOfKind(t, "refresh") => GateAnswer(t) # GateAnswer(Forged(t))
        /\ ValidOfKind(t, "access") => RefreshAnswer(t) # RefreshAnswer(Forged(t))

\* ------------------------------------------------------------------ C16
\* the last call's token, which is correctly signed, was verified after its
\* expiry timestamp had passed
VerifiedExpired ==
    /\ call.fn # "none"
    /\ call.expect # "none"
    /\ "exp" \in DOMAIN call.token.payload
    /\ call.token.payload.exp < call.verified_at

\* C16: verifying a correctly signed token after its expiry timestamp fails,
\* with an outcome (EXPIRED) that differs from the outcome the same
\* verification gives a token with a bad signature.
C16_ExpiredIsDistinct ==
    VerifiedExpired =>
        /\ ~call.outcome.ok
        /\ call.outcome # VerifyOutcome(Forged(call.token), call.expect, call.verified_at)

\* ------------------------------------------------------------------ C17
RateLimited ==
    Failure("login", 429, "Too many login attempts. Please try again later.",
            "rate_limit_exceeded")

\* some client's check admits in this step and the step records its attempt
CheckAdmits ==
    \E key \in LimiterClients :
        LET lim == check(cache, last_cleanup, key, now)
        IN  lim.allowed /\ cache' = lim.cache

\* C17: login asks the limiter before anything else. Whatever the credentials,
\* a rejected check makes login answer the rate-limited failure, and the step
\* that answers it verifies no credentials, creates no token and writes
\* neither the User table nor the RefreshToken table; every login step that
\* goes on to the credentials follows a check that admitted.
C17_LimiterFirst ==
    /\ [](\A ident \in Identifiers, password \in Passwords, db_ok \in BOOLEAN :
            login_checks(users, FALSE, ident, password, now, db_ok) = RateLimited)
    /\ [][/\ Throttled =>
               /\ out' = RateLimited
               /\ users' = users /\ store' = store /\ issued' = issued
               /\ pc' = pc /\ loc' = loc
          /\ Admitted => CheckAdmits]_vars

\* a client that logged in with good credentials is throttled at its eleventh
\* attempt: the tokens and records of its earlier logins are all there is
C17_Witness ==
    /\ out = RateLimited
    /\ Len(Attempts(cache, "ip1")) = max_calls
    /\ issued # {}
    /\ store # {}

\* ------------------------------------------------------------------ C18
\* what the client sees of a login answer
Outward(r) == [status |-> r.status, detail |-> r.detail,
               access_token |-> r.access_token, refresh_token |-> r.refresh_token]

\* the identifiers of the existing identity u, and those of no identity
IdentifiersOf(u) == {username(u), email(u)}
Unknown == {i \in Identifiers : \A u \in UserIds : users[u].exists => i \notin IdentifiersOf(u)}

\* the secrets that do not verify against the hash of u
WrongSecrets(u) == {s \in Passwords : ~verify_password(s, users[u].password)}
RightSecrets(u) == {s \in Passwords : verify_password(s, users[u].password)}

InvalidCredentials == [status |-> 401, detail |-> "Incorrect username or password",
                       access_token |-> NoToken, refresh_token |-> NoToken]

\* C18: a login naming no identity and a login naming an existing identity
\* with a wrong secret, whatever its active flag, get the same outward result
\* (status and message) from the same limiter and store; the inactive
\* identity with the right secret gets another one.
C18_NoEnumeration ==
    \A u \in UserIds : users[u].exists =>
        /\ \A i \in Unknown, j \in IdentifiersOf(u), s \in WrongSecrets(u),
              allowed \in BOOLEAN, db_ok \in BOOLEAN :
              /\ Outward(login_checks(users, allowed, i, s, now, db_ok))
                   = Outward(login_checks(users, allowed, j, s, now, db_ok))
              /\ allowed /\ db_ok =>
                   Outward(login_checks(users, allowed, j, s, now, db_ok))
                     = InvalidCredentials
        /\ ~users[u].isActive =>
              \A j \in IdentifiersOf(u), s \in RightSecrets(u) :
                  Outward(login_checks(users, TRUE, j, s, now, TRUE)) # InvalidCredentials

\* a login naming the inactive identity u1 has just been answered like one
\* naming nobody: its secret was wrong, the right one is answered 400
C18_Witness ==
    /\ users["u1"].exists /\ ~users["u1"].isActive
    /\ out.op = "login" /\ out.username \in IdentifiersOf("u1")
    /\ Outward(out) = InvalidCredentials
    /\ Outward(login_checks(users, TRUE, "nobody", "wrong", now, TRUE)) = Outward(out)

\* ------------------------------------------------------------------ C19
\* the login answer in out is the answer to an attempt naming identity u
AnswersLoginOf(u) ==
    /\ out.op = "login"
    /\ out.username \in IdentifiersOf(u)
    /\ users[u].exists

\* C19: an identity whose lock-until timestamp lies in the future cannot log
\* in: no login of it reaches the creation of tokens, whatever the secret,
\* and the answer it gets is the explicit locked outcome, not the one for
\* invalid credentials.
C19_LockedOutcome ==
    \A u \in UserIds :
        /\ \A p \in Procs :
              pc[p] = "login_store" /\ loc[p].user_id = u => ~Locked(users[u], now)
        /\ AnswersLoginOf(u) /\ Locked(users[u], now) =>
              /\ ReturnsNoToken(out)
              /\ Outward(out) # InvalidCredentials

\* ------------------------------------------------------------------ C20
\* this step answers a login naming identity u with a failed verification
FailedLoginOf(u) ==
    /\ out = NoResp
    /\ out'.op = "login" /\ out'.event = "failed_login"
    /\ out'.username \in IdentifiersOf(u)
    /\ users[u].exists

\* this step answers a login of identity u with its tokens
SuccessfulLoginOf(u) ==
    /\ \E p \in Procs : LoginAnswers(p)
    /\ out'.status = 200
    /\ out'.user_id = u

\* C20: with one login after another, every failed credential verification
\* adds one to the identity's failed-attempt counter, and a successful login
\* sets the counter to zero and last-login to the time of the login.
C20_CounterMaintained ==
    [][\A u \in UserIds :
          /\ FailedLoginOf(u) =>
                users'[u].failedLoginAttempts = users[u].failedLoginAttempts + 1
          /\ SuccessfulLoginOf(u) =>
                /\ users'[u].failedLoginAttempts = 0
                /\ users'[u].lastLogin = now]_vars

\* ------------------------------------------------------------------ C21
\* C21: the gate of a protected operation returns an identity only for a
\* correctly signed, unexpired access token whose subject exists and is
\* active, and the identity it returns is that subject; so every access
\* token of a deactivated identity is rejected, also one refresh minted
\* after the deactivation.
C21_GateReturnsActiveSubject ==
    /\ \A t \in Presentable, db_ok \in BOOLEAN :
          LET g == get_current_active_user(users, t, now, db_ok)
          IN  g.ok =>
                /\ jwt_decode(t, SECRET_KEY, now).ok
                /\ PayloadGet(t.payload, "type") = "access"
                /\ g.user = PayloadGet(t.payload, "sub")
                /\ users[g.user].exists
                /\ users[g.user].isActive
    /\ out.op = "authorize" /\ out.status = 200 =>
          users[out.user_id].exists /\ users[out.user_id].isActive

\* refresh has just minted an access token for u1, which was deactivated
\* after its login; the gate turns the new token down
C21_Witness ==
    /\ out.op = "refresh" /\ out.status = 200
    /\ users["u1"].exists /\ ~users["u1"].isActive
    /\ IsAccessTokenOf(out.access_token, "u1")
    /\ jwt_decode(out.access_token, SECRET_KEY, now).ok
    /\ GateAnswer(out.access_token).status = 400

\* ------------------------------------------------------------------ C22
\* C22: check_permission("admin", p) is true for every permission p of the
\* enumeration, and check_permission("readonly", "manage_branches") is false.
C22_AdminHasAll ==
    call.fn = "check_permission" =>
        /\ call.role = "admin" /\ call.arg \in Permission => call.result = TRUE
        /\ call.role = "readonly" /\ call.arg = "manage_branches" => call.result = FALSE

C22_Witness ==
    /\ call.fn = "check_permission"
    /\ call.role = "admin"
    /\ call.arg = "manage_branches"
    /\ call.result = TRUE

\* ------------------------------------------------------------------ C23
\* C23: for every role string and every permission string, also ones that
\* are no value of the enumerations, check_permission returns a boolean and
\* get_role_permissions a set of permissions; for a string outside the
\* enumerations the boolean is false and the set is empty.
C23_PermissionsTotal ==
    /\ call.fn = "check_permission" =>
          /\ call.result \in BOOLEAN
          /\ call.role \notin UserRole \/ call.arg \notin Permission => call.result = FALSE
    /\ call.fn = "get_role_permissions" =>
          /\ call.result \subseteq Permission
          /\ call.role \notin UserRole => call.result = {}

\* the admin was asked for a permission that is none
C23_Witness ==
    /\ call.fn = "check_permission"
    /\ call.role = "admin"
    /\ call.arg \notin Permission
    /\ call.result = FALSE

\* ------------------------------------------------------------------ C24
\* C24: the role gate lets an identity through if and only if its role is
\* one of the allowed roles, and an identity whose stored role is no value
\* of the role enumeration gets the forbidden answer, not an exception that
\* nothing handles.
C24_RoleGate ==
    call.fn = "RoleDependency" =>
        /\ call.result.ok <=> call.role \in call.arg
        /\ call.role \notin UserRole =>
              call.result.status = 403 /\ call.result.raised = "HTTPException"

\* ------------------------------------------------------------------ C25
\* the branches of the identity the last gate call was made for
BranchesOfCaller == ({call.branchId} \ {None}) \cup call.assigned

\* C25: the branch gate lets an admin through for every branch id without
\* reading the branch tables; an identity of role user whose only branch is
\* B1 gets through for B1 and is forbidden for B2.
C25_BranchGateCase ==
    call.fn = "BranchAccessDependency" =>
        /\ call.role = "admin" => call.result.ok /\ ~call.result.lookup
        /\ call.role = "user" /\ BranchesOfCaller = {"B1"} =>
              /\ call.arg = "B1" => call.result.ok
              /\ call.arg = "B2" => call.result.status = 403

\* the identity of role user, assigned to B1 by a row of the assignment
\* table and without an own branch, was refused B2
C25_Witness ==
    /\ call.fn = "BranchAccessDependency"
    /\ call.role = "user"
    /\ call.branchId = None /\ call.assigned = {"B1"}
    /\ call.arg = "B2"
    /\ call.result.status = 403

\* the admin went through for B2 without a lookup
C25_WitnessAdmin ==
    /\ call.fn = "BranchAccessDependency"
    /\ call.role = "admin" /\ call.arg = "B2"
    /\ call.result.ok

\* ------------------------------------------------------------------ C26
\* C26: for every identity that is no admin and every requested branch id,
\* the branch gate lets it through if and only if the branch is one of its
\* assignments or its own branch; so an identity with an own branch and
\* assignments to others gets through for each assigned branch.
C26_BranchGateIff ==
    call.fn = "BranchAccessDependency" /\ call.role # "admin" /\ call.arg # None =>
        (call.result.ok <=> call.arg \in call.assigned \/ call.arg = call.branchId)

\* ------------------------------------------------------------------ C27
\* the records of the store for token string t
RecordsOf(t) == {r \in store : r.token = t}

\* no two records of the store have the same token string
TokenUnique == \A r1, r2 \in store : r1.token = r2.token => r1 = r2

\* a login has just returned its tokens
LoginReturned == out.op = "login" /\ out.status = 200

\* C27 as stated: the store has at most one record per token string, and the
\* refresh token a login returns has exactly one record, owned by the
\* identity that logged in.
C27_Original ==
    /\ TokenUnique
    /\ LoginReturned =>
          /\ Cardinality(RecordsOf(out.refresh_token)) = 1
          /\ \A r \in RecordsOf(out.refresh_token) :
                r.userId = out.refresh_token.payload.sub

\* C27: the store has at most one record per token string; the refresh token
\* a login returns has at most one record, owned by the identity that logged
\* in, and exactly one when the login logged no storage failure. A login of
\* the same identity in the same second returns the same string, whose one
\* record is the earlier login's.
C27_OneRecordPerToken ==
    /\ TokenUnique
    /\ LoginReturned =>
          /\ Cardinality(RecordsOf(out.refresh_token)) <= 1
          /\ \A r \in RecordsOf(out.refresh_token) :
                r.userId = out.refresh_token.payload.sub
          /\ out.warning = "" => Cardinality(RecordsOf(out.refresh_token)) = 1

\* a second login of the same second returned the string that was stored,
\* and meanwhile revoked, for the first: the insert was refused and the
\* first login's record is the only one
C27_Witness ==
    /\ LoginReturned
    /\ out.warning = "refresh_token_storage_failed"
    /\ \E r \in RecordsOf(out.refresh_token) : r.isRevoked /\ r.createdAt = now

\* ------------------------------------------------------------------ C28
\* record r2 is record r, possibly revoked since
SameRecord(r, r2) ==
    /\ r2.token = r.token
    /\ r2.userId = r.userId
    /\ r2.expiresAt = r.expiresAt
    /\ r2.createdAt = r.createdAt
    /\ r.isRevoked => r2.isRevoked

\* this step is the revocation of a logout
LogoutRevokes == \E p \in Procs : pc[p] = "logout_revoke" /\ pc'[p] = "idle"

\* C28: no step of login, refresh or logout deletes a record, changes its
\* token string, owner or expiry, or makes a revoked record usable again;
\* the step of logout adds no record and changes only revoked flags, from
\* false to true.
C28_RevocationMonotone ==
    [][/\ \A r \in store : \E r2 \in store' : SameRecord(r, r2)
       /\ Cardinality(store') >= Cardinality(store)
       /\ LogoutRevokes =>
             /\ \A r2 \in store' : \E r \in store : SameRecord(r, r2)
             /\ Cardinality(store') = Cardinality(store)]_vars

\* an identity logged out and logged in again later: its revoked record is
\* kept beside the new one
C28_Witness ==
    \E r1, r2 \in store :
        /\ r1.userId = r2.userId
        /\ r1.isRevoked /\ ~r2.isRevoked
        /\ r1.createdAt < r2.createdAt

\* ------------------------------------------------------------------ C29
\* the one message each operation has for an exception nobody expected; a
\* failure of the store while the gate resolves the identity is answered by
\* the framework
InternalErrors(op) ==
    CASE op = "login" -> {"An unexpected error occurred during login"}
      [] op = "refresh" -> {"An unexpected error occurred while refreshing token"}
      [] op = "logout" -> {"An error occurred during logout", "Internal Server Error"}
      [] OTHER -> {"Internal Server Error"}

\* the statuses of the failures a client is answerable for
ClientFailures == {400, 401, 429}

\* with the store answering, no operation answers 500, whatever is presented;
\* and what is refused before the store is asked is refused the same way
\* when the store is down
ExpectedStayStructured ==
    /\ \A ident \in Identifiers, password \in Passwords, allowed \in BOOLEAN :
          /\ login_checks(users, allowed, ident, password, now, TRUE).status
               \in ClientFailures \cup {0}
          /\ ~allowed => \A db_ok \in BOOLEAN :
                login_checks(users, allowed, ident, password, now, db_ok).status = 429
    /\ \A t \in Presentable :
          /\ refresh_checks(store, t, now, TRUE).status \in ClientFailures \cup {0}
          /\ verify_refresh_token(t, now) = None =>
                refresh_checks(store, t, now, FALSE).status \in ClientFailures
          /\ get_current_active_user(users, t, now, TRUE).status \in ClientFailures \cup {200}
          /\ \A u \in UserIds :
                refresh_response(users, u, t, now, TRUE).status \in ClientFailures \cup {200}

\* an answer 500 carries the operation's generic message
InternalIsGeneric == out.status = 500 => out.detail \in InternalErrors(out.op)

\* C29 as stated: every expected failure stays a structured failure of its
\* own, and every exception of a collaborator is answered with the generic
\* internal error.
C29_Original ==
    /\ ExpectedStayStructured
    /\ InternalIsGeneric
    /\ out.warning # "" => out.status = 500

\* C29: every expected failure of login, refresh and logout stays a
\* structured failure of its own and is never turned into the internal
\* error; an exception of a collaborator is answered with the operation's
\* generic internal error, which says nothing of the exception, except that
\* a failure to persist the refresh record at login is logged as a warning
\* and the login succeeds.
C29_ErrorMapping ==
    /\ ExpectedStayStructured
    /\ InternalIsGeneric
    /\ out.warning # "" => out.op = "login" /\ out.status = 200

\* the store failed under the revocation of a logout
C29_Witness ==
    /\ out.op = "logout"
    /\ out.status = 500
    /\ out.detail = "An error occurred during logout"
    /\ out.event = "logout_error"

\* ------------------------------------------------------------------ C30
\* this step ran the sweep
Swept == last_cleanup' # last_cleanup

\* every timestamp of key k is older than time_frame
Aged(k) == InWindow(cache[k], now) = <<>>

\* C30: the sweep runs only in a check made more than cleanup_interval
\* seconds after the previous sweep, or after the construction; it removes
\* the keys all of whose timestamps are older than time_frame (the key being
\* checked starts again with the timestamp of the check), keeps for every
\* other key exactly the timestamps still within the window, and no step
\* without a sweep removes a key.
C30_Sweep ==
    /\ [](last_cleanup <= now)
    /\ [][/\ Swept =>
               /\ now - last_cleanup > cleanup_interval
               /\ last_cleanup' = now
               /\ \A k \in DOMAIN cache :
                     IF Aged(k)
                       THEN k \notin DOMAIN cache' \/ cache'[k] = <<now>>
                       ELSE /\ k \in DOMAIN cache'
                            /\ \/ cache'[k] = InWindow(cache[k], now)
                               \/ cache'[k] = Append(InWindow(cache[k], now), now)
               /\ Cardinality({k \in DOMAIN cache : Aged(k) /\ k \in DOMAIN cache'}) <= 1
          /\ ~Swept => DOMAIN cache \subseteq DOMAIN cache']_vars

\* a check two seconds more than two intervals after construction swept: it
\* kept the client's timestamp of the second before and added its own, and
\* no key of another client is left
C30_Witness ==
    /\ now = 2 * cleanup_interval + 2
    /\ last_cleanup = now
    /\ DOMAIN cache = {"ip1"}
    /\ cache["ip1"] = <<now - 1, now>>

\* ------------------------------------------------ password-reset request
\* the values settings.ENVIRONMENT is documented to take
Environments == {"development", "production", "testing"}

\* the addresses a caller may give: those of the identities and a foreign one
Emails == {email(u) : u \in UserIds} \cup {"nobody@mail"}

\* the identity whose email column holds the address, or nothing
get_user_by_email(us, mail) ==
    LET found == {u \in DOMAIN us : us[u].exists /\ email(u) = mail}
    IN  IF found = {} THEN None ELSE CHOOSE u \in found : TRUE

\* the reset token of an identity, an opaque string
create_password_reset_token(u) == IF u = "u1" THEN "reset-u1" ELSE "reset-u2"

\* the body every branch but the development one returns
ResetSent == [detail |-> "Password reset email sent", token |-> None]

\* a handler that tells the caller that the address is unknown
request_password_reset_not_found(us, mail, environment, db_ok, token_ok) ==
    IF ~db_ok THEN ResetSent
    ELSE IF get_user_by_email(us, mail) = None
         THEN [detail |-> "User not found", token |-> None]
         ELSE ResetSent

\* POST /password-reset/request: db_ok is false when the lookup raises,
\* token_ok is false when the creation of the reset token raises
request_password_reset(us, mail, environment, db_ok, token_ok) ==
    IF ~db_ok THEN ResetSent
    ELSE LET user == get_user_by_email(us, mail)
         IN  IF user # None
             THEN IF ~token_ok THEN ResetSent
                  ELSE IF environment = "development"
                       THEN [detail |-> "Password reset email sent",
                             token |-> create_password_reset_token(user)]
                       ELSE ResetSent
             ELSE ResetSent

RequestPasswordReset(mail, environment, db_ok, token_ok) ==
    Called([fn |-> "request_password_reset", email |-> mail,
            exists |-> get_user_by_email(users, mail) # None,
            environment |-> environment, raised |-> ~(db_ok /\ token_ok),
            result |-> request_password_reset(users, mail, environment, db_ok, token_ok)])

\* reset requests in every environment while identities change and go
NextReset ==
    \/ \E mail \in Emails, environment \in Environments, db_ok, token_ok \in BOOLEAN :
          RequestPasswordReset(mail, environment, db_ok, token_ok)
    \/ \E u \in UserIds, user_in \in UserUpdates : UpdateUser(u, user_in)
    \/ \E u \in UserIds : DeleteUser(u)

SpecReset == Init /\ [][NextReset]_vars

\* the answers the endpoint can give in an environment to a request for an
\* address, over the outcomes of the lookup and of the token creation
ResetAnswers(mail, environment) ==
    {request_password_reset(users, mail, environment, db_ok, token_ok) :
        db_ok \in BOOLEAN, token_ok \in BOOLEAN}

\* C31 as stated: in every environment the answer to a reset request is the
\* same whether or not the address belongs to an identity, and whether or
\* not the lookup or the token creation raises
C31_Original ==
    \A environment \in Environments, e1 \in Emails, e2 \in Emails :
        get_user_by_email(users, e1) # None /\ get_user_by_email(users, e2) = None =>
            \A a1 \in ResetAnswers(e1, environment), a2 \in ResetAnswers(e2, environment) :
                a1 = a2

\* C31: outside the development environment the answer to a reset request is
\* the same body whether or not the address belongs to an identity and
\* whether or not the lookup or the token creation raises; in the development
\* environment the body carries the reset token exactly when the address
\* belongs to an identity and nothing raised, and the detail is still the same
C31_ResetSameOutsideDevelopment ==
    \A environment \in Environments, mail \in Emails, db_ok \in BOOLEAN, token_ok \in BOOLEAN :
        LET answer == request_password_reset(users, mail, environment, db_ok, token_ok)
            known == get_user_by_email(users, mail) # None
        IN  IF environment = "development" /\ known /\ db_ok /\ token_ok
            THEN answer = [ResetSent EXCEPT
                             !.token = create_password_reset_token(get_user_by_email(users, mail))]
            ELSE answer = ResetSent

\* a request for the address of an identity that is gone was answered in
\* production, while the address of another identity is still known
C31_Witness ==
    /\ call.fn = "request_password_reset"
    /\ call.environment = "production"
    /\ ~call.exists /\ ~call.raised
    /\ call.email = email("u1")
    /\ call.result = ResetSent
    /\ get_user_by_email(users, email("u2")) # None

\* ------------------------------------------------------------------ C32
\* the entries of a timestamp list
Stamps(list) == {list[i] : i \in 1..Len(list)}

\* C32: after any sequence of checks the list kept for a key holds at most
\* max_calls timestamps; a check of a key at time t is admitted exactly when
\* fewer than max_calls recorded timestamps ts of the key have
\* t - ts <= time_frame, a timestamp exactly time_frame seconds old counting
\* among them; after the check the key's list holds no older timestamp, every
\* timestamp that counted, and again at most max_calls entries.
C32_WindowCountsInclusive ==
    \A key \in LimiterClients :
        LET l == Attempts(cache, key)
        IN  /\ Len(l) <= max_calls
            /\ \A d \in LimiterSteps \cup {0} :
                 LET t == now + d
                     r == check(cache, last_cleanup, key, t)
                     counted == {i \in 1..Len(l) : t - l[i] <= time_frame}
                 IN  /\ r.allowed <=> Cardinality(counted) < max_calls
                     /\ Len(r.cache[key]) <= max_calls
                     /\ \A ts \in Stamps(r.cache[key]) : t - ts <= time_frame
                     /\ \A i \in counted : l[i] \in Stamps(r.cache[key])
                     /\ Len(r.cache[key]) = Cardinality(counted) + (IF r.allowed THEN 1 ELSE 0)

\* a login was admitted by a check that found a timestamp exactly time_frame
\* seconds old in the list of its key: the list holds that timestamp and the
\* one of the check, and an eleventh check within the window would be refused
C32_Witness ==
    /\ now = time_frame + 1
    /\ out.op = "login" /\ out.status = 401
    /\ \E key \in LimiterClients :
         /\ Attempts(cache, key) = <<1, now>>
         /\ now - Attempts(cache, key)[1] = time_frame
         /\ RecentCount(cache, key, now) = 2

\* ------------------------------------------------------------------ C33
\* the last call's token was verified, at any time, as the other kind
VerifiedAsOtherKind ==
    /\ call.fn # "none"
    /\ call.expect # "none"
    /\ call.expect # KindOf(call.fn)

\* C33: whatever claim bag the caller hands over, a bag naming type, sub, exp
\* or iat included, a token of create_access_token is rejected by
\* verify_refresh_token, a token of create_refresh_token is rejected by
\* decode_access_token, and a verification that succeeds gives back the
\* subject the token was created for.
C33_BagCannotOverride ==
    /\ VerifiedAsOtherKind => ~call.outcome.ok
    /\ (call.fn # "none" /\ call.expect # "none" /\ call.outcome.ok) =>
          call.outcome.sub = call.subject

\* ------------------------------------------- a request through the gates
\* the condition under which get_current_user logs its warning: the token
\* names a role and the row found for its subject holds another
role_mismatch(us, token, t) ==
    LET payload == decode_access_token(token, t)
        user_id == PayloadGet(payload, "sub")
        token_role == PayloadGet(payload, "role")
    IN  /\ payload # NoToken.payload
        /\ user_id # None
        /\ get_user_by_id(us, user_id) # None
        /\ token_role # None
        /\ us[user_id].role # token_role

\* the HTTPException of get_current_active_user, as a gate outcome
AuthDenied(g) ==
    [ok |-> FALSE, status |-> g.status, detail |-> g.detail, raised |-> "HTTPException",
     lookup |-> FALSE]

GateNames == {"PermissionDependency", "RoleDependency", "BranchAccessDependency"}

\* gates deciding on the role claim of the presented token
Gated_token_role(us, asg, token, t, gate, arg) ==
    LET g == get_current_active_user(us, token, t, TRUE)
        token_role == PayloadGet(token.payload, "role")
        claimed == IF g.ok /\ token_role # None
                   THEN [us EXCEPT ![g.user].role = token_role] ELSE us
    IN  IF ~g.ok THEN AuthDenied(g)
        ELSE IF gate = "PermissionDependency" THEN PermissionDependency(claimed, g.user, arg)
        ELSE IF gate = "RoleDependency" THEN RoleDependency(claimed, g.user, arg)
        ELSE BranchAccessDependency(claimed, asg, g.user, arg)

\* a request carrying token to an endpoint behind a gate: the gate receives
\* the User row get_current_active_user returned
Gated(us, asg, token, t, gate, arg) ==
    LET g == get_current_active_user(us, token, t, TRUE)
    IN  IF ~g.ok THEN AuthDenied(g)
        ELSE IF gate = "PermissionDependency" THEN PermissionDependency(us, g.user, arg)
        ELSE IF gate = "RoleDependency" THEN RoleDependency(us, g.user, arg)
        ELSE BranchAccessDependency(us, asg, g.user, arg)

\* ------------------------------------------------------------------ C34
\* C34: the gates decide on the role stored for the identity at request time,
\* never on the role claim of the presented access token: a token whose role
\* claim differs from the stored role still authenticates its active subject,
\* and for every issued token that authenticates, the permission gate passes
\* exactly when the stored role has the permission, the role gate exactly when
\* the stored role is among the required ones, and the branch gate exactly
\* when the stored role is admin or the branch is one of the identity's.
C34_GatesUseStoredRole ==
    \A t \in issued :
        LET g == get_current_active_user(users, t, now, TRUE)
            u == g.user
        IN  /\ (role_mismatch(users, t, now) /\ is_active(users, PayloadGet(t.payload, "sub")))
                 => g.ok
            /\ g.ok =>
                 /\ \A p \in Permission :
                      Gated(users, assignments, t, now, "PermissionDependency", p).ok
                        <=> check_permission(users[u].role, p)
                 /\ \A rr \in RequiredRoles :
                      Gated(users, assignments, t, now, "RoleDependency", rr).ok
                        <=> users[u].role \in rr
                 /\ \A b \in Branches :
                      Gated(users, assignments, t, now, "BranchAccessDependency", b).ok
                        <=> \/ users[u].role = "admin"
                            \/ b = users[u].branchId
                            \/ b \in get_user_branches(users, assignments, u)

\* an access token issued to u1 with the role claim user was accepted by the
\* gate after the stored role became admin, and a permission only the admin
\* has is granted to the request
C34_Witness ==
    /\ out.op = "authorize" /\ out.status = 200 /\ out.user_id = "u1"
    /\ users["u1"].role = "admin"
    /\ \A t \in issued : PayloadGet(t.payload, "sub") = "u1" =>
                            PayloadGet(t.payload, "role") = "user"
    /\ \E t \in issued :
         /\ role_mismatch(users, t, now)
         /\ \E p \in Permission :
              /\ ~check_permission("user", p)
              /\ Gated(users, assignments, t, now, "PermissionDependency", p).ok

\* ------------------------------------------------------------------ C35
\* this step belongs to a logout of identity a: its gate, its revocation or
\* its answer
LogoutStepOf(a) ==
    \E p \in Procs :
        \/ pc[p] = "idle" /\ pc'[p] = "logout_revoke" /\ loc'[p].user_id = a
        \/ pc[p] = "logout_revoke" /\ pc'[p] = "idle" /\ loc[p].user_id = a

\* the records of the identities other than a
RecordsOfOthers(st, a) == {r \in st : r.userId # a}

\* C35: a logout of identity A leaves the refresh-token records of every
\* other identity and all identity records as they were, and a refresh token
\* of another identity B with which a refresh succeeded before a step of A's
\* logout succeeds with it after the step.
C35_LogoutFrame ==
    [][\A a \in UserIds :
         LogoutStepOf(a) =>
           /\ users' = users
           /\ RecordsOfOthers(store', a) = RecordsOfOthers(store, a)
           /\ \A t \in issued :
                (t.payload.sub # a /\ RefreshSucceedsNow(t)) => RefreshSucceedsNow(t)']_vars

\* an identity has logged out, its record is revoked, and the refresh token of
\* another identity that logged in before is still usable and still refreshes
C35_Witness ==
    /\ out.op = "logout" /\ out.status = 200
    /\ \E r \in store : r.userId = out.user_id /\ r.isRevoked
    /\ \E t \in issued :
         /\ t.payload.type = "refresh"
         /\ t.payload.sub # out.user_id
         /\ Usable(t)
         /\ RefreshSucceedsNow(t)

\* ------------------------------ the limiter beside one that never sweeps
\* the clock readings of the checks: the construction, the last reading at
\* which no check sweeps, the seconds after it, and the end of its window
RefineTimes == {0, cleanup_interval, cleanup_interval + 1, cleanup_interval + 2,
                cleanup_interval + time_frame, cleanup_interval + time_frame + 1}

\* call holds the limiter with the sweep disabled, which is fed the same
\* checks, and the two decisions of the last check
NoCheck ==
    [fn |-> "none", key |-> None, at |-> 0, allowed |-> TRUE, ref_allowed |-> TRUE,
     cache |-> <<>>, last_cleanup |-> 0]

InitRefine ==
    /\ now = 0
    /\ users = [u \in UserIds |-> InitUser(u)]
    /\ store = {}
    /\ cache = <<>>
    /\ last_cleanup = 0
    /\ issued = {}
    /\ pc = [p \in Procs |-> "idle"]
    /\ loc = [p \in Procs |-> NoLoc]
    /\ out = NoResp
    /\ nev = MaxEvents - MaxAttempts
    /\ loggedOut = {}
    /\ call = NoCheck
    /\ assignments = {}
    /\ reports = NoReports

\* one check(key) at the current clock reading, made on both limiters; a
\* refused check records nothing and is not counted
CheckBoth(key) ==
    LET lim == check(cache, last_cleanup, key, now)
        ref == check_no_sweep(call.cache, call.last_cleanup, key, now)
    IN  /\ Quiet
        /\ IF lim.allowed THEN nev < MaxEvents /\ nev' = nev + 1 ELSE nev' = nev
        /\ cache' = lim.cache
        /\ last_cleanup' = lim.last_cleanup
        /\ call' = [fn |-> "check", key |-> key, at |-> now, allowed |-> lim.allowed,
                    ref_allowed |-> ref.allowed, cache |-> ref.cache,
                    last_cleanup |-> ref.last_cleanup]
        /\ UNCHANGED <<now, users, store, issued, pc, loc, out, loggedOut, assignments, reports>>

NextRefine ==
    \/ \E key \in LimiterClients :
          /\ key = "ip1" \/ Len(InWindow(CacheGet(cache, key), now)) < MaxOther
          /\ CheckBoth(key)
    \/ \E d \in LimiterSteps : now + d \in RefineTimes /\ Tick(d)

SpecRefine == InitRefine /\ [][NextRefine]_vars

\* ------------------------------------------------------------------ C36
\* the timestamps of every key that a check at time t or later can count
Visible(c, t) == [k \in LimiterClients |-> InWindow(CacheGet(c, k), t)]

\* C36: for every sequence of checks with non-decreasing times the limiter
\* with the sweep gives each check the result the same limiter with the sweep
\* disabled gives it, the two holding the same timestamps within the window
\* for every key; and a check of a key leaves the timestamps within the
\* window of every other key, and so the result of every later check of
\* another key, as they were.
C36_SweepInvisible ==
    /\ call.allowed = call.ref_allowed
    /\ Visible(cache, now) = Visible(call.cache, now)
    /\ \A key \in LimiterClients, other \in LimiterClients, d \in LimiterSteps \cup {0} :
         other # key =>
           LET r == check(cache, last_cleanup, key, now)
           IN  /\ InWindow(CacheGet(r.cache, other), now + d)
                    = InWindow(CacheGet(cache, other), now + d)
               /\ check(r.cache, r.last_cleanup, other, now + d).allowed
                    = check(cache, last_cleanup, other, now + d).allowed

\* a check swept while timestamps of its key were within the window, the
\* limiter without sweep still holds a key the sweep removed, and both
\* limiters refused a check of the client with max_calls timestamps in the window
C36_Witness ==
    /\ call.fn = "check"
    /\ ~call.allowed /\ ~call.ref_allowed
    /\ last_cleanup > 0
    /\ DOMAIN cache # DOMAIN call.cache
    /\ Len(CacheGet(cache, call.key)) = max_calls
    /\ CacheGet(cache, call.key)[1] < last_cleanup

\* ------------------------------------------------------------------ C37
\* the login of this step got past the limiter with credentials that verify /
\* with credentials that do not
AdmittedValid == \E p \in Procs : pc[p] = "idle" /\ pc'[p] = "login_store"
AdmittedInvalid == out = NoResp /\ out'.op = "login" /\ out'.status = 401 /\ pc' = pc

\* C37: every login attempt the limiter admits adds one timestamp to the list
\* of its client key and to no other list, whether its credentials verify or
\* not; a client key with max_calls attempts within time_frame seconds is
\* answered as rate-limited whatever the credentials of its next attempt,
\* and a login from another key with fewer attempts is still admitted.
C37_EveryAttemptCounts ==
    /\ [](\A key \in LimiterClients :
            RecentCount(cache, key, now) >= max_calls =>
              /\ ~check(cache, last_cleanup, key, now).allowed
              /\ \A ident \in Identifiers, password \in Passwords :
                   login_checks(users, check(cache, last_cleanup, key, now).allowed,
                                ident, password, now, TRUE) = RateLimited
              /\ \A other \in LimiterClients \ {key} :
                   RecentCount(cache, other, now) < max_calls =>
                     /\ check(cache, last_cleanup, other, now).allowed
                     /\ login_checks(users, check(cache, last_cleanup, other, now).allowed,
                                     "u1", "secret", now, TRUE) = NoResp)
    /\ [][(AdmittedValid \/ AdmittedInvalid) =>
            \E key \in LimiterClients :
              /\ RecentCount(cache', key, now) = RecentCount(cache, key, now) + 1
              /\ RecentCount(cache, key, now) < max_calls
              /\ \A other \in LimiterClients \ {key} :
                   Recent(cache', other, now) = Recent(cache, other, now)]_vars

\* a client whose max_calls attempts of the last second include logins that
\* succeeded is answered as rate-limited, while another client has an attempt
\* in the window and would be admitted
C37_Witness ==
    /\ out = RateLimited
    /\ RecentCount(cache, "ip1", now) = max_calls
    /\ Cardinality(store) >= 2
    /\ RecentCount(cache, "ip2", now) = 1
    /\ check(cache, last_cleanup, "ip2", now).allowed
    /\ login_checks(users, check(cache, last_cleanup, "ip1", now).allowed,
                    "u1", "secret", now, TRUE) = RateLimited

\* ------------------------------------------------------------------ C38
\* the position of a role in the chain readonly, user, manager, admin
Rank(role) ==
    CASE role = "readonly" -> 0
      [] role = "user" -> 1
      [] role = "manager" -> 2
      [] role = "admin" -> 3

\* C38: the role table is a chain: the permissions of readonly are among
\* those of user, those of user among those of manager and those of manager
\* among those of admin; so a permission check_permission grants to a role it
\* grants to every higher role.
C38_RolesFormChain ==
    /\ \A r1 \in UserRole, r2 \in UserRole :
         Rank(r1) <= Rank(r2) => ROLE_PERMISSIONS[r1] \subseteq ROLE_PERMISSIONS[r2]
    /\ \A r1 \in UserRole, r2 \in UserRole, p \in PermissionStrings :
         (Rank(r1) <= Rank(r2) /\ check_permission(r1, p)) => check_permission(r2, p)
    /\ (call.fn = "check_permission" /\ call.result /\ call.role \in UserRole) =>
            \A r2 \in UserRole :
               Rank(call.role) <= Rank(r2) => check_permission(r2, call.arg)

\* check_permission granted the readonly role a permission, and each higher
\* role has a permission the role below it has not
C38_Witness ==
    /\ call.fn = "check_permission"
    /\ call.role = "readonly"
    /\ call.result
    /\ \A r1 \in UserRole, r2 \in UserRole :
         Rank(r2) = Rank(r1) + 1 => ROLE_PERMISSIONS[r2] \ ROLE_PERMISSIONS[r1] # {}

\* --------------------------------------------------------- report endpoints
\* the roles approve_report and reject_report let through
Approvers == {"admin", "manager", "approver"}

\* the status strings the service compares with and writes
StatusStrings == {"DRAFT", "PENDING", "APPROVED", "REJECTED"}

\* ReportUpdate.status is an optional free string: left out of the body, one
\* of the strings of the service, or any other
Unset == "unset"
ReportUpdates == {Unset} \cup StatusStrings \cup {"pending"}

\* the paths name a report of the table or none
ReportPaths == ReportIds \cup {"r9"}

\* what an endpoint answers, and the table it leaves
Answer(status, detail, table) == [status |-> status, detail |-> detail, reports |-> table]

ReportGet(rs, report_id) == IF report_id \in DOMAIN rs THEN rs[report_id] ELSE NoReport

\* POST /reports/: report_service.create_report reads Report.type and
\* report_in.type, attributes neither the model nor the schema has, before it
\* adds a row; the AttributeError is not the ValueError the endpoint catches
create_report(rs, branch_id) ==
    IF branch_id \notin BranchTable THEN Answer(404, "Branch not found", rs)
    ELSE Answer(500, "Internal Server Error", rs)

\* PUT /reports/{report_id}: the service sets every field of the body
update_report(rs, us, u, report_id, report_in) ==
    LET report == ReportGet(rs, report_id)
    IN  IF ~report.exists THEN Answer(404, "Report not found", rs)
        ELSE IF report.submittedBy # u /\ us[u].role # "admin"
          THEN Answer(403, "Not enough permissions to edit this report", rs)
        ELSE IF report.status \notin {"DRAFT", "REJECTED"}
          THEN Answer(400, "Cannot edit report", rs)
        ELSE Answer(200, "", IF report_in = Unset THEN rs
                             ELSE [rs EXCEPT ![report_id].status = report_in])

\* DELETE /reports/{report_id}
delete_report(rs, us, u, report_id) ==
    LET report == ReportGet(rs, report_id)
    IN  IF ~report.exists THEN Answer(404, "Report not found", rs)
        ELSE IF report.submittedBy # u /\ us[u].role # "admin"
          THEN Answer(403, "Not enough permissions to delete this report", rs)
        ELSE IF report.status # "DRAFT" THEN Answer(400, "Cannot delete report", rs)
        ELSE Answer(204, "", [rs EXCEPT ![report_id] = NoReport])

\* POST /reports/{report_id}/submit
submit_report(rs, us, u, report_id) ==
    LET report == ReportGet(rs, report_id)
    IN  IF ~report.exists THEN Answer(404, "Report not found", rs)
        ELSE IF report.submittedBy # u /\ us[u].role # "admin"
          THEN Answer(403, "Not enough permissions to submit this report", rs)
        ELSE IF report.status # "DRAFT" THEN Answer(400, "Report cannot be submitted", rs)
        ELSE Answer(200, "", [rs EXCEPT ![report_id].status = "PENDING"])

\* POST /reports/{report_id}/approve: the status is committed before the
\* comment, if one is given, is added; add_report_comment reads
\* comment_in.type, which ReportCommentCreate does not have
approve_report(rs, us, u, report_id, comment) ==
    LET report == ReportGet(rs, report_id)
        approved == [rs EXCEPT ![report_id].status = "APPROVED"]
    IN  IF ~report.exists THEN Answer(404, "Report not found", rs)
        ELSE IF us[u].role \notin Approvers
          THEN Answer(403, "Not enough permissions to approve reports", rs)
        ELSE IF report.status # "PENDING" THEN Answer(400, "Report cannot be approved", rs)
        ELSE IF comment # None THEN Answer(500, "Internal Server Error", approved)
        ELSE Answer(200, "", approved)

\* POST /reports/{report_id}/reject: the comment is required
reject_report(rs, us, u, report_id) ==
    LET report == ReportGet(rs, report_id)
    IN  IF ~report.exists THEN Answer(404, "Report not found", rs)
        ELSE IF us[u].role \notin Approvers
          THEN Answer(403, "Not enough permissions to reject reports", rs)
        ELSE IF report.status # "PENDING" THEN Answer(400, "Report cannot be rejected", rs)
        ELSE Answer(500, "Internal Server Error",
                    [rs EXCEPT ![report_id].status = "REJECTED"])

\* a request of identity u, which get_current_active_user let through, to
\* the endpoint op: its answer and the table afterwards
ReportRequest(op, u, a) ==
    /\ Quiet
    /\ Resolved(u)
    /\ reports' = a.reports
    /\ out' = [NoResp EXCEPT !.op = op, !.status = a.status, !.detail = a.detail,
                             !.user_id = u]
    /\ UNCHANGED <<now, users, store, cache, last_cleanup, issued, pc, loc, nev,
                   loggedOut, call, assignments>>

\* the roles an administrator gives the identity that is no administrator
ReportRoleUpdates == [field : {"role"}, value : {"user", "manager", "approver"}]

\* the table holds drafts of either identity: create_report cannot add one,
\* the rows are those of the application the table is shared with
InitReports ==
    /\ now = 0
    /\ users = [u \in UserIds |-> InitUser(u)]
    /\ store = {}
    /\ cache = <<>>
    /\ last_cleanup = 0
    /\ issued = {}
    /\ pc = [p \in Procs |-> "idle"]
    /\ loc = [p \in Procs |-> NoLoc]
    /\ out = NoResp
    /\ nev = 0
    /\ loggedOut = {}
    /\ call = NoCall
    /\ assignments = {}
    /\ \E s \in [ReportIds -> UserIds] :
          reports = [r \in ReportIds |->
                       [exists |-> TRUE, status |-> "DRAFT", submittedBy |-> s[r]]]

NextReports ==
    \/ \E u \in UserIds, branch_id \in Branches \cup {"B9"} :
          ReportRequest("create_report", u, create_report(reports, branch_id))
    \/ \E u \in UserIds, r \in ReportPaths, report_in \in ReportUpdates :
          ReportRequest("update_report", u, update_report(reports, users, u, r, report_in))
    \/ \E u \in UserIds, r \in ReportPaths :
          ReportRequest("delete_report", u, delete_report(reports, users, u, r))
    \/ \E u \in UserIds, r \in ReportPaths :
          ReportRequest("submit_report", u, submit_report(reports, users, u, r))
    \/ \E u \in UserIds, r \in ReportPaths, comment \in {None, "ok"} :
          ReportRequest("approve_report", u, approve_report(reports, users, u, r, comment))
    \/ \E u \in UserIds, r \in ReportPaths :
          ReportRequest("reject_report", u, reject_report(reports, users, u, r))
    \/ \E user_in \in ReportRoleUpdates : UpdateUser("u1", user_in)
    \/ Deliver

SpecReports == InitReports /\ [][NextReports]_vars

\* ------------------------------------------------------------------ C39
\* the changes of status the claim allows, each with the endpoint that makes it
StatusFlow ==
    {<<"DRAFT", "PENDING", "submit_report">>, <<"PENDING", "APPROVED", "approve_report">>,
     <<"PENDING", "REJECTED", "reject_report">>}

\* C39: through the report endpoints the status of a report changes only from
\* DRAFT to PENDING by submit, from PENDING to APPROVED by approve and from
\* PENDING to REJECTED by reject, and a report becomes APPROVED only by
\* approve_report called by a user whose role is admin, manager or approver.
C39_ReportStatusFlow ==
    [][\A r \in ReportIds :
         (reports[r].exists /\ reports'[r].exists /\ reports'[r].status # reports[r].status) =>
            /\ <<reports[r].status, reports'[r].status, out'.op>> \in StatusFlow
            /\ reports'[r].status = "APPROVED" =>
                 users[out'.user_id].role \in Approvers]_vars

====
